---- MODULE Spec2Model ----
(***************************************************************************)
(* Model of the connection pool (sql_playground_mcp/pool.py), the scoped   *)
(* borrow used by the database handle (sql_playground_mcp/database.py)     *)
(* and the database registry (mcp_sql_server/registry.py).                 *)
(*                                                                         *)
(* Threads interleave at every access to shared state: each block guarded  *)
(* by ConnectionPool._lock is one step, each queue.Queue operation is one  *)
(* step, and each unlocked read or write of _closed is one step.  An       *)
(* operation on a connection object (connect, rollback, close, SELECT 1)   *)
(* touches no pool state and is folded into the step of the lock block     *)
(* that follows it; so is a lock block that only adds to a metric that no  *)
(* code path reads back (failed_acquisitions, health_check_count), since   *)
(* it commutes with every step of every other thread.  The pool is        *)
(* specified twice.  In Spec the clock stands still: wherever the code     *)
(* compares time.time() with a threshold (deadline, lifetime, idle,        *)
(* health-check interval) the step takes either branch.  In SpecTimed the  *)
(* clock ptime advances by whole seconds between any two steps, every      *)
(* entry carries its timestamps, every acquire call its deadline, and      *)
(* each comparison is computed; that pool has max_size = 1 and is never    *)
(* closed.  The driver decides whether a connection operation succeeds or  *)
(* raises pyodbc.Error.  The pool's callers are scoped borrows             *)
(* (ConnectionPool.connection), the only caller of release in the code.    *)
(* The registry's lock is a variable, because close() holds it across the  *)
(* close of every handle while get reads the map without it.               *)
(*                                                                         *)
(* The database handle (DatabaseManager) is modelled with the pools it     *)
(* constructs; there a pool's acquire, release and close are one step      *)
(* each, their inner interleavings being those of the pool model above.    *)
(* One call of the handle (get_cursor, execute_query, execute_statement)   *)
(* is also followed through its try/except/finally blocks, with or         *)
(* without pooling; slog lists what it does to its connection, in order.   *)
(*                                                                         *)
(* The TTL cache (sql_playground_mcp/cache.py) has a clock: one unit of    *)
(* `now` is 60 seconds.  Each block under TTLCache._lock is one step; set  *)
(* and cleanup_expired read the clock before they take the lock, which is  *)
(* a step of its own.  Cache keys are the strings the wrapper builds.      *)
(*                                                                         *)
(* The pipeline (sql_playground_mcp/tools, errors.py, security.py,         *)
(* audit.py) is one thread calling the operations one after another.  A    *)
(* message is a sequence of parts, each the text a pattern of errors.py    *)
(* captures or text no pattern captures; statements are sequences of       *)
(* words.  The work of the handle under an operation is summarised by the  *)
(* rows or the error the driver returns and a count of the connections     *)
(* borrowed.  The timer of timed_operation counts in units of its own.     *)
(***************************************************************************)
EXTENDS Integers, Sequences, FiniteSets, TLC

\* ---------------------------------------------------------------- bounds
\* Largest max_size a pool is configured with.
MaxPoolSize == 2
\* Number of acquire calls the client threads make in one behaviour.
MaxCalls == 3
\* Cap on failed_acquisitions reached through failing pyodbc.connect calls.
MaxFailed == 1

\* The last instant of the pool's clock, in seconds.
MaxPoolTime == 2

\* Number of borrows made in one behaviour of the pool under its clock.
MaxTimedCalls == 2

\* Number of registry get calls made in one behaviour.
MaxGets == 3
\* Number of registry close and close_database calls in one behaviour.
MaxRegCloses == 2

\* Number of cursor, query and exec calls made on one handle, and of close
\* calls made on it, in one behaviour.
MaxHandleCalls == 3
MaxHandleCloses == 2

\* The last instant of the cache's clock, the number of calls made to a
\* memoised function and to invalidate_metadata_cache(), and the number
\* of direct calls to the cache's methods.
MaxTime == 1
MaxCachedCalls == 3
MaxCacheOps == 3
\* The number of calls made to the pipeline's operations.
MaxPipelineCalls == 1
\* The number of get_cursor, execute_query and execute_statement calls
\* whose work on the connection is followed, and the most rows one of
\* them affects or fetches.
MaxSessionCalls == 2
MaxAffected == 1
\* execute_query's largest limit and its default limit.
MaxLimit == 10000
DefaultLimit == 1000
\* TTLCache.default_ttl and METADATA_CACHE_TTL, 60 seconds, in clock units.
DefaultTtl == 1
MetadataCacheTtl == 1

\* Threads that borrow connections, and the value of "no entry".
Clients == {"t1", "t2"}
NoEntry == 0
\* Identities of PooledConnection objects; an identity is reused only when
\* no reference to the old object is left.
EntryIds == 1..(MaxPoolSize + 1)

VARIABLES
    \* ---- ConnectionPool fields
    max_size,                  \* PoolConfig.max_size, fixed at construction
    queue,                     \* _pool: FIFO of parked entries
    created_count,             \* _created_count
    closed,                    \* _closed
    total_acquisitions, total_releases, failed_acquisitions,
    health_check_count, transaction_resets, in_use, peak_usage,
    \* ---- connection objects
    conn_open,                 \* entries whose connection is open
    closed_twice,              \* close() was called on a closed connection
    \* ---- the clock and what is measured against it
    settings,                  \* PoolConfig: max_lifetime, idle_timeout,
                               \* health_check_interval, acquire_timeout
    ptime,                     \* time.time() as the pool reads it
    stamps,                    \* per entry: created_at, last_used_at,
                               \* last_health_check
    parked_at,                 \* per parked entry, when release parked it
                               \* (history, not program state)
    deadline,                  \* per client inside acquire: its deadline
    \* ---- client threads
    pc,                        \* position of each client in its call
    held,                      \* the entry a client holds a reference to
    outcome,                   \* how the client's last call ended
    exc,                       \* an error raised in the scope is propagating
    reset,                     \* what _reset_connection did in this release
    calls,                     \* acquire calls started so far
    \* ---- the thread that calls close()
    cpc, cheld,
    \* ---- DatabaseRegistry fields
    managers,                  \* _managers: (name, handle) in insertion order
    rlock,                     \* _lock: "free" or the thread holding it
    handles,                   \* every DatabaseManager constructed so far
    \* ---- threads that call registry get
    gpc, galias, gout, gh, gets,
    \* ---- the thread that calls registry close and close_database
    rpc, ridx, rh, rout, rfailed, rcloses

VARIABLES
    \* ---- DatabaseManager fields and the pools it has constructed
    hpool,                     \* _pool: NoPool or the pool it refers to
    hpools,                    \* every ConnectionPool constructed by it
    \* ---- threads that call get_cursor, execute_query, execute_statement
    hpc, hlocal, hout, hcalls,
    hlate,                     \* the call began after a close() of the pool
    \* ---- the thread that calls DatabaseManager.close()
    hcpc, hcloses

VARIABLES
    \* ---- TTLCache
    now,                       \* time.time()
    tcache,                    \* _cache: key -> (value, expires_at)
    tlive,                     \* per key, the last set not yet invalidated
                               \* or cleared (history, not program state)
    invoked,                   \* per call, the times the wrapped function
                               \* has returned a result for it (ghost)
    served,                    \* the last call answered from the cache and
                               \* the value it was given (ghost)
    \* ---- threads that call a function wrapped by @cached
    wpc, wcall, wval, wout, wcalls,
    \* ---- the thread that calls the cache's methods directly
    mpc, mkey, mval, mexp, mres, mcount, mops

VARIABLES
    \* ---- the thread that calls the pipeline's operations
    qpc,                       \* its position in the operation
    qin,                       \* the operation and its arguments
    qlimit, qfetch,            \* the clamped limit, the TOP ceiling
    qsent,                     \* the statement passed to the handle
    qrows,                     \* the rows the driver returned, -1 if none
    qerr,                      \* the message of the exception raised
    qelapsed,                  \* the timer's reading since the window opened
    qtiming,                   \* timing["duration_ms"], -1 while not set
    qresp,                     \* the result handed to the caller
    qaudit,                    \* the audit records the call has emitted
    qacquired,                 \* connections borrowed by the calls so far
    qcalls

VARIABLES
    \* ---- one thread's use of a connection through the handle
    spc,                       \* its position in the operation
    sop,                       \* the operation, and whether the handle pools
    slog,                      \* what the call has done to the connection,
                               \* the cursor and the pool, in order
    serr,                      \* the exception that is propagating
    sval,                      \* cursor.rowcount or the rows fetched
    sout,                      \* what the caller got: a value or an error
    scalls,
    swork,                     \* the operations whose changes are not yet
                               \* committed on the connection of a handle
                               \* that pools (TRUE) or does not (FALSE)
    sdurable                   \* the operations whose changes have been
                               \* committed, by the kind of handle

poolVars == <<max_size, queue, created_count, closed,
              total_acquisitions, total_releases, failed_acquisitions,
              health_check_count, transaction_resets, in_use, peak_usage,
              conn_open, closed_twice>>
clientVars == <<pc, held, outcome, exc, reset, calls, deadline>>
timeVars == <<settings, ptime>>
stampVars == <<stamps, parked_at>>
closerVars == <<cpc, cheld>>
regVars == <<managers, rlock, handles>>
getterVars == <<gpc, galias, gout, gh, gets>>
regCloserVars == <<rpc, ridx, rh, rout, rfailed, rcloses>>
handleVars == <<hpool, hpools, hpc, hlocal, hout, hcalls, hlate, hcpc,
                hcloses>>
cacheVars == <<now, tcache, tlive, invoked, served>>
wrapperVars == <<wpc, wcall, wval, wout, wcalls>>
directVars == <<mpc, mkey, mval, mexp, mres, mcount, mops>>
pipelineVars == <<qpc, qin, qlimit, qfetch, qsent, qrows, qerr, qelapsed,
                  qtiming, qresp, qaudit, qacquired, qcalls>>
sessionVars == <<spc, sop, slog, serr, sval, sout, scalls, swork,
                sdurable>>
\* What the pool's operations leave alone, what the registry's do, what
\* the handle's do, what the cache's do, what the pipeline's do and what
\* the operations on a connection do.
nonPool == <<timeVars, regVars, getterVars, regCloserVars, handleVars, cacheVars,
             wrapperVars, directVars, pipelineVars, sessionVars>>
nonRegistry == <<poolVars, clientVars, closerVars, timeVars, stampVars, handleVars, cacheVars,
                 wrapperVars, directVars, pipelineVars, sessionVars>>
nonHandle == <<poolVars, clientVars, closerVars, timeVars, stampVars, regVars, getterVars,
               regCloserVars, cacheVars, wrapperVars, directVars,
               pipelineVars, sessionVars>>
nonCache == <<poolVars, clientVars, closerVars, timeVars, stampVars, regVars, getterVars,
              regCloserVars, handleVars, pipelineVars, sessionVars>>
nonPipeline == <<poolVars, clientVars, closerVars, timeVars, stampVars, getterVars,
                 regCloserVars, handleVars, wrapperVars, directVars,
                 sessionVars>>
nonSession == <<poolVars, clientVars, closerVars, timeVars, stampVars, regVars, getterVars,
                regCloserVars, handleVars, cacheVars, wrapperVars,
                directVars, pipelineVars>>
vars == <<poolVars, clientVars, closerVars, timeVars, stampVars, regVars, getterVars,
          regCloserVars, handleVars, cacheVars, wrapperVars, directVars,
          pipelineVars, sessionVars>>

\* Threads that call registry get; the configured aliases (the registry
\* requires "default") and an alias that is not configured.
Getters == {"g1", "g2"}
Configured == {"default", "analytics"}
AliasInputs == Configured \cup {"ghost"}
NoHandle == 0

\* Threads that use one handle, and the value None of its _pool field.
Users == {"u1", "u2"}
NoPool == 0

\* Threads that call a memoised function.
Wrappers == {"w1", "w2"}

\* Python values passed as arguments: None or a string.
PyNone == [t |-> "none", s |-> ""]
PyStr(x) == [t |-> "str", s |-> x]
\* str(arg) and f"{v}"
Str(v) == IF v.t = "none" THEN "None" ELSE v.s

\* A keyword argument, and the calls made to the memoised function
\* _list_tables_cached(schema, database="default"): positional arguments
\* and keyword arguments in the order they are passed.
Kw(n, v) == [name |-> n, value |-> v]
CallInputs ==
    { [args |-> <<PyNone>>, kwargs |-> <<Kw("database", PyStr("a"))>>],
      [args |-> <<PyNone>>, kwargs |-> <<Kw("database", PyStr("b"))>>],
      [args |-> <<PyStr("None")>>, kwargs |-> <<Kw("database", PyStr("a"))>>],
      [args |-> << >>,
       kwargs |-> <<Kw("schema", PyNone), Kw("database", PyStr("a"))>>],
      [args |-> << >>,
       kwargs |-> <<Kw("database", PyStr("a")), Kw("schema", PyNone)>>] }

\* The parameter names in Python's string order, which sorted() uses.
KwNameOrder == <<"database", "schema">>
NameRank(n) == CHOOSE i \in 1..Len(KwNameOrder) : KwNameOrder[i] = n

\* sorted(kwargs.items()): insertion into a sequence sorted by name.
RECURSIVE InsertKw(_, _)
InsertKw(kw, sorted) ==
    IF sorted = << >> THEN <<kw>>
    ELSE IF NameRank(kw.name) <= NameRank(Head(sorted).name)
    THEN <<kw>> \o sorted
    ELSE <<Head(sorted)>> \o InsertKw(kw, Tail(sorted))
\* Mutant of SortedKw: the keyword arguments are taken in the order in
\* which they were passed.
MutSortedKwAsPassed(kws) == kws

RECURSIVE SortedKw(_)
SortedKw(kws) ==
    IF kws = << >> THEN << >> ELSE InsertKw(Head(kws), SortedKw(Tail(kws)))

\* ":".join(key_parts)
RECURSIVE JoinParts(_)
JoinParts(parts) ==
    IF Len(parts) = 1 THEN parts[1]
    ELSE parts[1] \o ":" \o JoinParts(Tail(parts))

\* Mutant of KeyParts: the database keyword is left out of the key.
MutKeyPartsNoDatabase(c) ==
    <<"list_tables">>
      \o [i \in 1..Len(c.args) |-> Str(c.args[i])]
      \o [i \in 1..(Len(c.kwargs) - 1) |->
             SelectSeq(SortedKw(c.kwargs),
                       LAMBDA kw : kw.name # "database")[i].name
               \o "="
               \o Str(SelectSeq(SortedKw(c.kwargs),
                                LAMBDA kw : kw.name # "database")[i].value)]

\* cached.wrapper: the key prefix, str() of each positional argument, then
\* name=value of each keyword argument sorted by name.
KeyParts(c) ==
    <<"list_tables">>
      \o [i \in 1..Len(c.args) |-> Str(c.args[i])]
      \o [i \in 1..Len(c.kwargs) |->
             SortedKw(c.kwargs)[i].name \o "=" \o Str(SortedKw(c.kwargs)[i].value)]
CacheKey(c) == JoinParts(KeyParts(c))
\* The key of each call of the model.
KeyOf == [c \in CallInputs |-> CacheKey(c)]

\* The parameters a call binds: what the wrapped function is called with.
KwValue(c, n, default) ==
    IF \E i \in 1..Len(c.kwargs) : c.kwargs[i].name = n
      THEN c.kwargs[CHOOSE i \in 1..Len(c.kwargs) : c.kwargs[i].name = n].value
      ELSE default
Bound(c) ==
    [schema |-> IF Len(c.args) >= 1 THEN c.args[1]
                                    ELSE KwValue(c, "schema", PyNone),
     database |-> IF Len(c.args) >= 2 THEN c.args[2]
                  ELSE KwValue(c, "database", PyStr("default"))]
Bindings == {Bound(c) : c \in CallInputs}

\* What the wrapped function returns for the parameters b: the answer of
\* database b.database as it is at the time of the query.  Then the value
\* stored by a direct set, and the None that get returns for a missing key.
Answer(b, at) == [of |-> b, at |-> at]
NoBinding == [schema |-> PyNone, database |-> PyNone]
DirectValue == Answer(NoBinding, 0)
NoneValue == Answer(NoBinding, -1)

\* What a thread that is not inside a call has in wcall.
NoCall == [args |-> << >>, kwargs |-> << >>]

\* The keys used in the model, and dict operations on _cache.
CacheKeys == {CacheKey(c) : c \in CallInputs}
EmptyMap == [k \in {} |-> NoneValue]
Put(f, k, v) == [x \in DOMAIN f \cup {k} |-> IF x = k THEN v ELSE f[x]]
Drop(f, ks) == [x \in DOMAIN f \ ks |-> f[x]]

Range(s) == {s[i] : i \in 1..Len(s)}
Max(a, b) == IF a > b THEN a ELSE b
Min(a, b) == IF a < b THEN a ELSE b

\* ----------------------------------------------------- messages, errors
\* A message is a sequence of parts; the kind of a part is the text that
\* surrounds it in the message: "login_user" is the name in
\* "Login failed for user '<name>'", "server", "uid" and "pwd" are the
\* values of SERVER=, UID= and PWD=, "principal" is the name in
\* 'The server principal "<name>" is not able to access the database',
\* "invalid_object" is the name in "Invalid object name '<name>'".
Tok(kind, text) == [kind |-> kind, text |-> text]
Plain(text) == <<Tok("plain", text)>>
NoMessage == << >>

\* The strings of the model that \b\d{1,3}\.\d{1,3}\.\d{1,3}\.\d{1,3}\b
\* matches.
IPv4Literals == {"10.0.0.5", "10.0.0.9"}

\* Messages of pyodbc errors.
DriverMessages ==
    { <<Tok("login_user", "sa")>>,
      <<Tok("plain", "Connection failed"), Tok("server", "db01"),
        Tok("uid", "sa"), Tok("pwd", "hunter2")>>,
      <<Tok("plain", "TCP Provider: timeout connecting to"),
        Tok("plain", "10.0.0.5")>>,
      <<Tok("principal", "sa")>>,
      <<Tok("invalid_object", "dbo.T"), Tok("plain", "10.0.0.5")>> }

\* sanitize_error: re.sub of each SENSITIVE_PATTERNS entry in turn, the
\* IPv4 pattern last.
SanitizeTok(t) ==
    IF t.kind \in {"login_user", "server", "uid", "pwd"}
      THEN Tok(t.kind, "[REDACTED]")
    ELSE IF t.text \in IPv4Literals THEN Tok(t.kind, "[REDACTED_IP]")
    ELSE t
SanitizeError(msg) == [i \in 1..Len(msg) |-> SanitizeTok(msg[i])]

\* simplify_error: the first ERROR_SIMPLIFICATIONS pattern found replaces
\* the whole message by its template.
SimplifyError(msg) ==
    IF \E i \in 1..Len(msg) : msg[i].kind = "invalid_object"
      THEN <<Tok("object_not_found",
                 msg[CHOOSE i \in 1..Len(msg) :
                        msg[i].kind = "invalid_object"].text)>>
      ELSE msg

\* The shapes returned to the caller: create_error_response(e),
\* {"error": str(e), "success": False}, and a success.
ErrorShape(msg) ==
    [success |-> FALSE, error |-> msg, row_count |-> 0, truncated |-> FALSE]
CreateErrorResponse(msg) == ErrorShape(SimplifyError(SanitizeError(msg)))
SuccessShape(n, truncated) ==
    [success |-> TRUE, error |-> NoMessage, row_count |-> n,
     truncated |-> truncated]
NoResponse == ErrorShape(Plain("not called"))

\* DatabaseRegistry.get: the KeyError for a name that is not configured,
\* with ", ".join(sorted(self._configs.keys())).
KeyErrorMessage(name) ==
    <<Tok("plain", "Unknown database"), Tok("alias", name),
      Tok("plain", "Available databases:"),
      Tok("available", "analytics"), Tok("available", "default")>>
\* Mutant of HasConfig: every name passes for configured.
MutHasConfigAny(name) == TRUE

\* `name in self._configs`
HasConfig(name) == name \in Configured

\* ------------------------------------------------------------ validation
\* The words of the statements and names of the model with str.upper() of
\* each, and the prefix among BLOCKED_PREFIXES that a word starts with.
UpperOf ==
    [w \in {"SELECT", "1", "TABLE", "INSERT", "INTO", "WITH", "UPDATE"}
        |-> w]
      @@ ("drop" :> "DROP") @@ ("Users" :> "USERS")
      @@ ("xp_cmdshell" :> "XP_CMDSHELL") @@ ("sp_who" :> "SP_WHO")
      @@ ("bad name" :> "BAD NAME") @@ ("dbo" :> "DBO")
      @@ ("select" :> "SELECT") @@ ("cte" :> "CTE") @@ ("xp_" :> "XP_")
      @@ ("dropped" :> "DROPPED") @@ ("dbo.sp_who" :> "DBO.SP_WHO")
      @@ (" " :> " ")
PrefixOf(w) ==
    IF w \in {"xp_cmdshell", "xp_"} THEN "xp_"
    ELSE IF w = "sp_who" THEN "sp_" ELSE ""
\* A statement is the sequence of its words; " " is white space that
\* separates no words (before the first word, or all there is).
\* str.split(): the words.  Then the maximal runs of word characters,
\* the \w+ of the patterns, in a word.
IsWord(w) == w # " "
Split(sql) == SelectSeq(sql, IsWord)
WordRuns(w) ==
    IF w = " " THEN {} ELSE IF w = "dbo.sp_who" THEN {"dbo", "sp_who"}
    ELSE {w}
\* The words that match ^[a-zA-Z_][a-zA-Z0-9_]*$
IdentifierWords == {"SELECT", "TABLE", "INSERT", "INTO", "drop", "Users",
                    "xp_cmdshell", "sp_who", "dbo"}

BlockedKeywords ==
    {"DROP", "TRUNCATE", "ALTER", "CREATE", "GRANT", "REVOKE", "SHUTDOWN",
     "BACKUP", "RESTORE", "DBCC", "OPENROWSET", "OPENQUERY",
     "OPENDATASOURCE", "BULK", "KILL"}

\* validate_query(sql, allow_modifications): the error message, NoMessage
\* for a valid statement.  The statements of the model hold at most one
\* blocked keyword and one blocked prefix.
ValidateQuery(sql, allow_modifications) ==
    LET runs == UNION {WordRuns(sql[i]) : i \in 1..Len(sql)}
        upper == {UpperOf[r] : r \in runs}
        \* \b{prefix}\w+ : a run that goes on after the prefix
        prefixed == {r \in runs : PrefixOf(r) # "" /\ r # PrefixOf(r)}
        allowed == IF allow_modifications
                     THEN {"SELECT", "WITH", "INSERT", "UPDATE", "DELETE"}
                     ELSE {"SELECT", "WITH"}
    IN IF sql = << >> \/ Split(sql) = << >>
         THEN Plain("Query cannot be empty")
       ELSE IF upper \cap BlockedKeywords # {}
       THEN <<Tok("plain", "Blocked keyword detected:"),
              Tok("keyword", CHOOSE k \in BlockedKeywords : k \in upper)>>
       ELSE IF prefixed # {}
       THEN <<Tok("plain", "System procedure calls not allowed:"),
              Tok("prefix", PrefixOf(CHOOSE r \in prefixed : TRUE))>>
       ELSE IF UpperOf[Split(sql)[1]] \notin allowed
       THEN <<Tok("plain", "Statement type not allowed:"),
              Tok("word", UpperOf[Split(sql)[1]])>>
       ELSE NoMessage

\* validate_identifier(name)
ValidateIdentifier(name) ==
    IF name = "" THEN Plain("Identifier cannot be empty")
    ELSE IF name \notin IdentifierWords
    THEN <<Tok("plain", "Invalid identifier:"), Tok("word", name)>>
    ELSE IF UpperOf[name] \in BlockedKeywords
    THEN <<Tok("plain", "Reserved keyword not allowed as identifier:"),
           Tok("word", name)>>
    ELSE NoMessage

\* validate_procedure_name(proc_name)
ValidateProcedureName(name) ==
    IF PrefixOf(name) # ""
      THEN <<Tok("plain", "System procedure not allowed:"),
             Tok("word", name)>>
      ELSE NoMessage

\* sanitize_table_name(name, "dbo"): the message of the ValueError.
SanitizeTableName(name) ==
    IF ValidateIdentifier(name) # NoMessage THEN ValidateIdentifier(name)
    ELSE ValidateIdentifier("dbo")

\* ------------------------------------------------------------- pipeline
\* The operations: those that run in a timing window and emit an audit
\* record, those that return str(e), and those answered through @cached.
TimedOps == {"execute_query", "execute_statement", "execute_procedure",
             "execute_query_file"}
PlainOps == {"list_tables", "describe_table", "list_procedures",
             "get_view_definition", "get_function_definition"}
CachedOps == {"list_tables", "describe_table", "list_procedures"}
QueryOps == {"execute_query", "execute_query_file"}

\* The arguments the model passes: statements, names (none for an omitted
\* schema), file names, limits, aliases, and the rows the query selects.
SqlInputs == { <<"SELECT", "1">>, <<"drop", "TABLE", "Users">>,
               <<"INSERT", "INTO", "Users">>, <<"SELECT", "xp_cmdshell">>,
               << >>, <<" ">>, <<" ", "select", "1">>, <<"WITH", "cte">>,
               <<"UPDATE", "Users">>, <<"SELECT", "xp_">>,
               <<"SELECT", "dbo.sp_who">>, <<"SELECT", "dropped">> }
NameInputs == { <<"Users">>, <<"sp_who">>, <<"bad name">>, << >> }
FileInputs == { <<"report">>, <<"missing">>, <<"../x">> }
ArgInputs(op) ==
    IF op \in {"execute_query", "execute_statement"} THEN SqlInputs
    ELSE IF op = "execute_query_file" THEN FileInputs
    ELSE NameInputs
LimitInputs == {0, 1, MaxLimit, 2 * MaxLimit}
RowInputs == {0, 1, 2, MaxLimit, MaxLimit + 2}
PipelineAliases == {"default", "ghost", "10.0.0.9"}
\* The time an operation takes, in units of the timer.
ElapsedInputs == {1, 2}

\* execute_query_file: the names matching ^[a-zA-Z0-9_-]+\.sql$ once
\* ".sql" is appended, the files of the query directory and their text.
FileNameWords == {"report", "missing"}
QueryFiles == {"report"}
FileSql == <<"SELECT", "1">>

\* The name an operation is given, "" for none.
NameOf(arg) == IF arg = << >> THEN "" ELSE arg[1]

\* Mutant of Validate: execute_statement relies on validate_query alone.
MutValidateNoStatementCheck(op, arg) ==
    CASE op = "execute_query" -> ValidateQuery(arg, FALSE)
      [] op = "execute_statement" -> ValidateQuery(arg, TRUE)
      [] op = "execute_query_file" ->
            IF NameOf(arg) \notin FileNameWords
              THEN Plain("Invalid filename")
            ELSE IF NameOf(arg) \notin QueryFiles
              THEN <<Tok("plain", "Query file not found:"),
                     Tok("word", NameOf(arg))>>
            ELSE ValidateQuery(FileSql, FALSE)
      [] op = "execute_procedure" ->
            IF ValidateProcedureName(NameOf(arg)) # NoMessage
              THEN ValidateProcedureName(NameOf(arg))
              ELSE SanitizeTableName(NameOf(arg))
      [] op \in {"list_tables", "list_procedures"} ->
            IF arg = << >> THEN NoMessage
                          ELSE ValidateIdentifier(NameOf(arg))
      [] OTHER -> SanitizeTableName(NameOf(arg))

\* What an operation checks before it asks for the database: the message
\* it returns, NoMessage when the arguments pass.
Validate(op, arg) ==
    CASE op = "execute_query" -> ValidateQuery(arg, FALSE)
      [] op = "execute_statement" ->
            IF ValidateQuery(arg, TRUE) # NoMessage
              THEN ValidateQuery(arg, TRUE)
            ELSE IF UpperOf[Split(arg)[1]] \notin
                       {"INSERT", "UPDATE", "DELETE"}
              THEN Plain("Use execute_query for SELECT statements")
            ELSE NoMessage
      [] op = "execute_query_file" ->
            IF NameOf(arg) \notin FileNameWords
              THEN Plain("Invalid filename")
            ELSE IF NameOf(arg) \notin QueryFiles
              THEN <<Tok("plain", "Query file not found:"),
                     Tok("word", NameOf(arg))>>
            ELSE ValidateQuery(FileSql, FALSE)
      [] op = "execute_procedure" ->
            IF ValidateProcedureName(NameOf(arg)) # NoMessage
              THEN ValidateProcedureName(NameOf(arg))
              ELSE SanitizeTableName(NameOf(arg))
      [] op \in {"list_tables", "list_procedures"} ->
            IF arg = << >> THEN NoMessage
                          ELSE ValidateIdentifier(NameOf(arg))
      [] OTHER -> SanitizeTableName(NameOf(arg))

\* The call is rejected by validate_query, which is what is audited.
ValidationAudited(op, arg) ==
    /\ op \in {"execute_query", "execute_statement", "execute_query_file"}
    /\ (op = "execute_query_file")
          => (NameOf(arg) \in FileNameWords \cap QueryFiles)
    /\ ValidateQuery(IF op = "execute_query_file" THEN FileSql ELSE arg,
                     op = "execute_statement") # NoMessage

\* Mutant of ClampLimit: the limit is capped but has no floor.
MutClampLimitNoFloor(limit) == Min(limit, MaxLimit)

\* limit = max(1, min(limit, 10000)) and fetch_limit = limit + 1
ClampLimit(limit) == Max(1, Min(limit, MaxLimit))
FetchLimit(limit) == limit + 1

\* f"{n}" of a natural number.
RECURSIVE IntStr(_)
IntStr(n) ==
    LET digit == <<"0", "1", "2", "3", "4", "5", "6", "7", "8", "9">>
    IN IF n < 10 THEN digit[n + 1]
       ELSE IntStr(n \div 10) \o digit[(n % 10) + 1]

\* Mutant of InjectTopClause: TOP is given the limit itself.
MutInjectTopNoSurplus(sql, limit) ==
    <<"SELECT", "TOP", IntStr(limit), "*", "FROM", "(">> \o sql
        \o <<")", "AS", "_limited_query">>

\* _inject_top_clause:
\* f"SELECT TOP {fetch_limit} * FROM ({sql}) AS _limited_query"
InjectTopClause(sql, limit) ==
    <<"SELECT", "TOP", IntStr(FetchLimit(limit)), "*", "FROM", "(">> \o sql
        \o <<")", "AS", "_limited_query">>
\* The statement an operation hands to the handle: the wrapped query,
\* the statement as it is, f"EXEC [{schema}].[{proc_name}]", or the
\* operation's own query of the catalog.
SentOf(op, arg, limit) ==
    IF op = "execute_query" THEN InjectTopClause(arg, limit)
    ELSE IF op = "execute_query_file" THEN InjectTopClause(FileSql, limit)
    ELSE IF op = "execute_statement" THEN arg
    ELSE IF op = "execute_procedure"
    THEN <<"EXEC", "[dbo].[" \o NameOf(arg) \o "]">>
    ELSE <<"SELECT", "FROM", "catalog">>

\* A field a record does not have, and the records of the audit log.
Absent == "absent"
AuditRecord(event, db, ok, ms, rows, truncated, error, keyword) ==
    [event |-> event, database |-> db, success |-> ok,
     duration_ms |-> ms, row_count |-> rows,
     truncated |-> truncated, error |-> error,
     blocked_keyword |-> keyword]
EventOf(op) ==
    IF op \in QueryOps THEN "QUERY_EXECUTED"
    ELSE IF op = "execute_statement" THEN "STATEMENT_EXECUTED"
    ELSE "PROCEDURE_EXECUTED"

\* The key @cached builds for a metadata operation: its key_prefix, then
\* the parts of _cached(schema, database=database), or of
\* _describe_table_cached(table_name, "dbo", database=database).
MetadataKey(op, arg, database) ==
    JoinParts(<<op>> \o
        Tail(KeyParts([args |-> IF op = "describe_table"
                                  THEN <<PyStr(NameOf(arg)), PyStr("dbo")>>
                                ELSE IF arg = << >> THEN <<PyNone>>
                                ELSE <<PyStr(NameOf(arg))>>,
                       kwargs |-> <<Kw("database", PyStr(database))>>])))

\* ---------------------------------------------- operations on a connection
\* The handle's operations that use a cursor; no exception; what a caller
\* has before its call returns, after it returns v, after it raises e.
SessionOps == {"get_cursor", "execute_query", "execute_statement"}
NoError == "none"
NoOutcome == [kind |-> "none", value |-> 0, error |-> NoError]
Returned(v) == [kind |-> "returned", value |-> v, error |-> NoError]
Raised(e) == [kind |-> "raised", value |-> 0, error |-> e]
\* How the code run with the cursor ends: normally, with a pyodbc.Error
\* of cursor.execute, or (in the body of `with get_cursor()`) with an
\* exception of the caller's own.
BodyResults(op) ==
    IF op = "get_cursor" THEN {"ok", "execute failed", "app error"}
    ELSE {"ok", "execute failed"}

\* Every entry some thread or the queue still refers to.
Referenced == Range(queue) \cup {held[t] : t \in Clients} \cup {cheld}
\* The identity of a newly constructed PooledConnection.
FreshId == CHOOSE e \in EntryIds :
              /\ e \notin Referenced
              /\ \A f \in EntryIds : f \notin Referenced => e <= f

\* ------------------------------------------------------------------ Init
\* ConnectionPool.__init__ with _initialize_pool, for a PoolConfig with
\* 1 <= min_size <= max_size: each of the min_size eager creations either
\* succeeds (the entry is parked) or fails (the counter is restored), so
\* some k <= min_size <= max_size entries are parked.  min_size is not
\* read again after construction.
\* PoolConfig's defaults, in seconds.
DefaultSettings ==
    [max_lifetime |-> 3600, idle_timeout |-> 300,
     health_check_interval |-> 30, acquire_timeout |-> 10]

\* PooledConnection's default_factory fields: all three read time.time().
NewStamps(at) ==
    [created_at |-> at, last_used_at |-> at, last_health_check |-> at]

\* The state after construction under pool settings s.
InitAt(s) ==
    /\ settings = s
    /\ ptime = 0
    /\ stamps = [e \in EntryIds |-> NewStamps(0)]
    /\ parked_at = [e \in EntryIds |-> 0]
    /\ deadline = [t \in Clients |-> 0]
    /\ max_size \in 1..MaxPoolSize
    /\ \E min_size \in 1..max_size, k \in 0..max_size :
          /\ k <= min_size
          /\ queue = [i \in 1..k |-> i]
          /\ created_count = k
          /\ conn_open = 1..k
    /\ closed_twice = FALSE
    /\ closed = FALSE
    /\ total_acquisitions = 0 /\ total_releases = 0
    /\ failed_acquisitions = 0 /\ health_check_count = 0
    /\ transaction_resets = 0 /\ in_use = 0 /\ peak_usage = 0
    /\ pc = [t \in Clients |-> "idle"]
    /\ held = [t \in Clients |-> NoEntry]
    /\ outcome = [t \in Clients |-> "none"]
    /\ exc = [t \in Clients |-> FALSE]
    /\ reset = [t \in Clients |-> "none"]
    /\ calls = 0
    /\ cpc = "idle" /\ cheld = NoEntry
    /\ managers = << >>
    /\ rlock = "free"
    /\ handles = << >>
    /\ gpc = [g \in Getters |-> "idle"]
    /\ galias = [g \in Getters |-> "default"]
    /\ gout = [g \in Getters |-> "none"]
    /\ gh = [g \in Getters |-> NoHandle]
    /\ gets = 0
    /\ rpc = "idle" /\ ridx = 0 /\ rh = NoHandle /\ rout = "none"
    /\ rfailed = {} /\ rcloses = 0
    /\ hpool = NoPool
    /\ hpools = << >>
    /\ hpc = [u \in Users |-> "idle"]
    /\ hlocal = [u \in Users |-> NoPool]
    /\ hout = [u \in Users |-> "none"]
    /\ hcalls = 0
    /\ hlate = [u \in Users |-> FALSE]
    /\ hcpc = "idle" /\ hcloses = 0
    /\ now = 0
    /\ tcache = EmptyMap
    /\ tlive = EmptyMap
    /\ invoked = [c \in CallInputs |-> 0]
    /\ served = [call |-> NoCall, value |-> NoneValue]
    /\ qpc = "idle"
    /\ qin = [op |-> "none", arg |-> << >>, limit |-> DefaultLimit,
              database |-> "default"]
    /\ qlimit = 0 /\ qfetch = 0 /\ qrows = -1
    /\ qsent = << >>
    /\ qerr = NoMessage
    /\ qelapsed = 0 /\ qtiming = -1
    /\ qresp = NoResponse
    /\ qaudit = << >>
    /\ qacquired = 0 /\ qcalls = 0
    /\ spc = "idle"
    /\ sop = [op |-> "none", pooled |-> TRUE]
    /\ slog = << >>
    /\ serr = NoError /\ sval = 0
    /\ sout = NoOutcome
    /\ scalls = 0
    /\ swork = [pooled \in BOOLEAN |-> {}]
    /\ sdurable = {}
    /\ wpc = [w \in Wrappers |-> "idle"]
    /\ wcall = [w \in Wrappers |-> NoCall]
    /\ wout = [w \in Wrappers |-> "none"]
    /\ wval = [w \in Wrappers |-> NoneValue]
    /\ wcalls = 0
    /\ mpc = "idle" /\ mkey = "" /\ mval = NoneValue /\ mexp = 0
    /\ mres = "none" /\ mcount = 0 /\ mops = 0

Init == InitAt(DefaultSettings)

\* ------------------------------------------------- ConnectionPool helpers
\* _close_connection: close the connection, then decrement under the lock.
CloseConnection(e) ==
    /\ conn_open' = conn_open \ {e}
    /\ closed_twice' = (closed_twice \/ e \notin conn_open)
    /\ created_count' = created_count - 1

\* Mutant of TrackAcquisition: peak_usage follows in_use.
MutTrackPeakFollowsInUse ==
    /\ total_acquisitions' = total_acquisitions + 1
    /\ in_use' = in_use + 1
    /\ peak_usage' = in_use + 1

\* mark_used and _track_acquisition: the entry is handed to the caller.
TrackAcquisition ==
    /\ total_acquisitions' = total_acquisitions + 1
    /\ in_use' = in_use + 1
    /\ peak_usage' = Max(peak_usage, in_use + 1)

\* acquire returns entry e to client t, which enters the borrow's scope.
ReturnEntry(t, e) ==
    /\ TrackAcquisition
    /\ held' = [held EXCEPT ![t] = e]
    /\ pc' = [pc EXCEPT ![t] = "body"]
    /\ outcome' = [outcome EXCEPT ![t] = "entry"]
    /\ deadline' = [deadline EXCEPT ![t] = 0]

\* release returns; the scoped borrow then re-raises a pending error.
ReleaseReturns(t) ==
    /\ pc' = [pc EXCEPT ![t] = "idle"]
    /\ held' = [held EXCEPT ![t] = NoEntry]
    /\ outcome' = [outcome EXCEPT ![t] = IF exc[t] THEN "error" ELSE "ok"]
    /\ exc' = [exc EXCEPT ![t] = FALSE]

\* --------------------------------------------------------------- acquire
\* Mutant of Acquire: the check of _closed is missing.
MutAcquireNoClosedCheck(t) ==
    /\ pc[t] = "idle"
    /\ calls < MaxCalls
    /\ calls' = calls + 1
    /\ exc' = [exc EXCEPT ![t] = FALSE]
    /\ reset' = [reset EXCEPT ![t] = "none"]
    /\ outcome' = [outcome EXCEPT ![t] = "none"]
    /\ pc' = [pc EXCEPT ![t] = "acq_loop"]
    /\ deadline' = [deadline EXCEPT ![t] = ptime + settings.acquire_timeout]
    /\ UNCHANGED <<poolVars, held, closerVars, stampVars,
                   nonPool>>

\* connection() calls acquire(): the unlocked check of _closed.
Acquire(t) ==
    /\ pc[t] = "idle"
    /\ calls < MaxCalls
    /\ calls' = calls + 1
    /\ exc' = [exc EXCEPT ![t] = FALSE]
    /\ reset' = [reset EXCEPT ![t] = "none"]
    /\ IF closed
         THEN /\ outcome' = [outcome EXCEPT ![t] = "closed"]
              /\ pc' = pc
              /\ UNCHANGED deadline
         ELSE /\ outcome' = [outcome EXCEPT ![t] = "none"]
              /\ pc' = [pc EXCEPT ![t] = "acq_loop"]
              /\ deadline' = [deadline EXCEPT ![t] =
                                  ptime + settings.acquire_timeout]
    /\ UNCHANGED <<poolVars, held, closerVars, stampVars,
                   nonPool>>

\* Mutant of AcqTimeout: the timeout is raised without being counted.
MutAcqTimeoutNotCounted(t) ==
    /\ pc[t] = "acq_loop"
    /\ outcome' = [outcome EXCEPT ![t] = "timeout"]
    /\ pc' = [pc EXCEPT ![t] = "idle"]
    /\ deadline' = [deadline EXCEPT ![t] = 0]
    /\ UNCHANGED <<poolVars, held, exc, reset, calls, closerVars, stampVars,
                   nonPool>>

\* remaining <= 0: count the failure under the lock, raise TimeoutError.
AcqTimeout(t) ==
    /\ pc[t] = "acq_loop"
    /\ failed_acquisitions' = failed_acquisitions + 1
    /\ outcome' = [outcome EXCEPT ![t] = "timeout"]
    /\ pc' = [pc EXCEPT ![t] = "idle"]
    /\ deadline' = [deadline EXCEPT ![t] = 0]
    /\ UNCHANGED <<max_size, queue, created_count, closed,
                   total_acquisitions, total_releases, health_check_count,
                   transaction_resets, in_use, peak_usage, conn_open,
                   closed_twice, held, exc, reset, calls, closerVars,
                   stampVars,
                   nonPool>>

\* Mutant of AcqGet: the head of the queue is read but not removed.
MutAcqGetPeeks(t) ==
    /\ pc[t] = "acq_loop"
    /\ queue # << >>
    /\ held' = [held EXCEPT ![t] = Head(queue)]
    /\ pc' = [pc EXCEPT ![t] = "acq_got"]
    /\ UNCHANGED <<poolVars, outcome, exc, reset, calls, closerVars,
                   stampVars, deadline,
                   nonPool>>

\* self._pool.get(timeout=...) hands over the head of the parked queue.
AcqGet(t) ==
    /\ pc[t] = "acq_loop"
    /\ queue # << >>
    /\ held' = [held EXCEPT ![t] = Head(queue)]
    /\ queue' = Tail(queue)
    /\ parked_at' = [parked_at EXCEPT ![Head(queue)] = 0]
    /\ pc' = [pc EXCEPT ![t] = "acq_got"]
    /\ UNCHANGED <<max_size, created_count, closed, total_acquisitions,
                   total_releases, failed_acquisitions, health_check_count,
                   transaction_resets, in_use, peak_usage, conn_open,
                   closed_twice, outcome, exc, reset, calls, closerVars,
                   stamps, deadline,
                   nonPool>>

\* self._pool.get(timeout=...) raises queue.Empty.
AcqEmpty(t) ==
    /\ pc[t] = "acq_loop"
    /\ queue = << >>
    /\ pc' = [pc EXCEPT ![t] = "acq_empty"]
    /\ UNCHANGED <<poolVars, held, outcome, exc, reset, calls, closerVars,
                   stampVars, deadline,
                   nonPool>>

\* The checks on an entry taken from the queue: is_stale, is_idle,
\* needs_health_check with _is_connection_healthy, then mark_used and
\* _track_acquisition.  verdict is what the timestamps and the driver
\* decide.
AcqCheck(t, verdict) ==
    /\ pc[t] = "acq_got"
    /\ IF verdict \in {"stale", "idle"}
         THEN /\ CloseConnection(held[t])
              /\ held' = [held EXCEPT ![t] = NoEntry]
              /\ pc' = [pc EXCEPT ![t] = "acq_loop"]
              /\ UNCHANGED <<health_check_count, total_acquisitions, in_use,
                             peak_usage, outcome, stamps, deadline>>
         ELSE IF verdict = "unhealthy"
         THEN /\ health_check_count' = health_check_count + 1
              /\ CloseConnection(held[t])
              /\ held' = [held EXCEPT ![t] = NoEntry]
              /\ pc' = [pc EXCEPT ![t] = "acq_loop"]
              /\ UNCHANGED <<total_acquisitions, in_use, peak_usage,
                             outcome, stamps, deadline>>
         ELSE /\ health_check_count' =
                    IF verdict = "healthy" THEN health_check_count + 1
                                           ELSE health_check_count
              /\ stamps' = [stamps EXCEPT ![held[t]] =
                    [created_at |-> @.created_at,
                     last_used_at |-> ptime,
                     last_health_check |->
                         IF verdict = "healthy" THEN ptime
                                                ELSE @.last_health_check]]
              /\ ReturnEntry(t, held[t])
              /\ UNCHANGED <<created_count, conn_open, closed_twice>>
    /\ UNCHANGED <<max_size, queue, closed, total_releases,
                   failed_acquisitions, transaction_resets, exc, reset,
                   calls, closerVars, parked_at,
                   nonPool>>

\* except queue.Empty: read can_create under the lock.
AcqCanCreate(t) ==
    /\ pc[t] = "acq_empty"
    /\ pc' = [pc EXCEPT ![t] =
                 IF created_count < max_size THEN "acq_create" ELSE "acq_loop"]
    /\ UNCHANGED <<poolVars, held, outcome, exc, reset, calls, closerVars,
                   stampVars, deadline,
                   nonPool>>

\* Mutant of AcqCreate: the slot is reserved without re-checking max_size.
MutAcqCreateUnchecked(t) ==
    /\ pc[t] = "acq_create"
    /\ created_count' = created_count + 1
    /\ pc' = [pc EXCEPT ![t] = "acq_connect"]
    /\ UNCHANGED <<max_size, queue, closed, total_acquisitions,
                   total_releases, failed_acquisitions, health_check_count,
                   transaction_resets, in_use, peak_usage, conn_open,
                   closed_twice, held, outcome, exc, reset, calls,
                   closerVars, stampVars, deadline,
                   nonPool>>

\* _create_connection, first lock block: reserve a slot or raise
\* RuntimeError, which acquire catches, counts and continues.
AcqCreate(t) ==
    /\ pc[t] = "acq_create"
    /\ IF created_count >= max_size
         THEN /\ failed_acquisitions' = failed_acquisitions + 1
              /\ pc' = [pc EXCEPT ![t] = "acq_loop"]
              /\ UNCHANGED created_count
         ELSE /\ created_count' = created_count + 1
              /\ pc' = [pc EXCEPT ![t] = "acq_connect"]
              /\ UNCHANGED failed_acquisitions
    /\ UNCHANGED <<max_size, queue, closed, total_acquisitions,
                   total_releases, health_check_count, transaction_resets,
                   in_use, peak_usage, conn_open, closed_twice, held,
                   outcome, exc, reset, calls, closerVars, stampVars, deadline,
                   nonPool>>

\* _create_connection, pyodbc.connect: on success the new entry is marked
\* used and returned; on failure the slot is given back, the failure is
\* counted and the loop continues.
AcqConnect(t, ok) ==
    /\ pc[t] = "acq_connect"
    /\ IF ok
         THEN /\ ReturnEntry(t, FreshId)
              /\ conn_open' = conn_open \cup {FreshId}
              /\ stamps' = [stamps EXCEPT ![FreshId] = NewStamps(ptime)]
              /\ UNCHANGED <<created_count, failed_acquisitions,
                             closed_twice>>
         ELSE /\ failed_acquisitions < MaxFailed
              /\ created_count' = created_count - 1
              /\ failed_acquisitions' = failed_acquisitions + 1
              /\ pc' = [pc EXCEPT ![t] = "acq_loop"]
              /\ UNCHANGED <<total_acquisitions, in_use, peak_usage,
                             conn_open, closed_twice, held, outcome, stamps,
                             deadline>>
    /\ UNCHANGED <<max_size, queue, closed, total_releases,
                   health_check_count, transaction_resets, exc, reset, calls,
                   closerVars, parked_at,
                   nonPool>>

\* ------------------------------------------------- the borrow's scope
\* Mutant of Body: release is called on the normal path only.
MutBodyNoFinally(t, raises) ==
    /\ pc[t] = "body"
    /\ IF raises
         THEN /\ pc' = [pc EXCEPT ![t] = "idle"]
              /\ held' = [held EXCEPT ![t] = NoEntry]
              /\ outcome' = [outcome EXCEPT ![t] = "error"]
              /\ UNCHANGED exc
         ELSE /\ exc' = [exc EXCEPT ![t] = FALSE]
              /\ pc' = [pc EXCEPT ![t] = "rel_start"]
              /\ UNCHANGED <<held, outcome>>
    /\ UNCHANGED <<poolVars, reset, calls, closerVars, stampVars, deadline,
                   nonPool>>

\* The body of `with pool.connection()` ends, normally or with an error;
\* the finally clause calls release either way.
Body(t, raises) ==
    /\ pc[t] = "body"
    /\ exc' = [exc EXCEPT ![t] = raises]
    /\ pc' = [pc EXCEPT ![t] = "rel_start"]
    /\ UNCHANGED <<poolVars, held, outcome, reset, calls, closerVars,
                   stampVars, deadline,
                   nonPool>>

\* --------------------------------------------------------------- release
\* Mutant of RelStart: release counts itself but leaves in_use alone.
MutRelStartKeepsInUse(t) ==
    /\ pc[t] = "rel_start"
    /\ total_releases' = total_releases + 1
    /\ in_use' = in_use
    /\ pc' = [pc EXCEPT ![t] = "rel_closed"]
    /\ UNCHANGED <<max_size, queue, created_count, closed,
                   total_acquisitions, failed_acquisitions,
                   health_check_count, transaction_resets, peak_usage,
                   conn_open, closed_twice, held, outcome, exc, reset, calls,
                   closerVars, stampVars, deadline,
                   nonPool>>

\* First lock block: total_releases and in_use.
RelStart(t) ==
    /\ pc[t] = "rel_start"
    /\ total_releases' = total_releases + 1
    /\ in_use' = Max(0, in_use - 1)
    /\ pc' = [pc EXCEPT ![t] = "rel_closed"]
    /\ UNCHANGED <<max_size, queue, created_count, closed,
                   total_acquisitions, failed_acquisitions,
                   health_check_count, transaction_resets, peak_usage,
                   conn_open, closed_twice, held, outcome, exc, reset, calls,
                   closerVars, stampVars, deadline,
                   nonPool>>

\* if self._closed: close the entry and return.
RelCheckClosed(t) ==
    /\ pc[t] = "rel_closed"
    /\ IF closed
         THEN /\ CloseConnection(held[t])
              /\ ReleaseReturns(t)
         ELSE /\ pc' = [pc EXCEPT ![t] = "rel_reset"]
              /\ UNCHANGED <<created_count, conn_open, closed_twice, held,
                             outcome, exc>>
    /\ UNCHANGED <<max_size, queue, closed, total_acquisitions,
                   total_releases, failed_acquisitions, health_check_count,
                   transaction_resets, in_use, peak_usage, reset, calls,
                   closerVars, stampVars, deadline,
                   nonPool>>

\* Mutant of RelReset: the result of _reset_connection is ignored, so an
\* entry whose rollback failed goes on to be parked.
MutRelResetIgnored(t, verdict) ==
    /\ pc[t] = "rel_reset"
    /\ IF verdict = "stale"
         THEN /\ CloseConnection(held[t])
              /\ ReleaseReturns(t)
              /\ UNCHANGED <<transaction_resets, reset>>
         ELSE /\ reset' = [reset EXCEPT ![t] =
                     IF verdict = "rollback_fails" THEN "failed" ELSE "done"]
              /\ transaction_resets' =
                     IF verdict = "rollback_fails" THEN transaction_resets
                                                   ELSE transaction_resets + 1
              /\ pc' = [pc EXCEPT ![t] = "rel_put"]
              /\ UNCHANGED <<created_count, conn_open, closed_twice, held,
                             outcome, exc>>
    /\ UNCHANGED <<max_size, queue, closed, total_acquisitions,
                   total_releases, failed_acquisitions, health_check_count,
                   in_use, peak_usage, calls, closerVars, stampVars, deadline,
                   nonPool>>

\* Mutant of RelReset: transaction_resets is counted before the rollback is
\* attempted, so a failed rollback is counted too.
MutRelResetCountedFirst(t, verdict) ==
    /\ pc[t] = "rel_reset"
    /\ IF verdict = "stale"
         THEN /\ CloseConnection(held[t])
              /\ ReleaseReturns(t)
              /\ UNCHANGED <<transaction_resets, reset>>
         ELSE IF verdict = "rollback_fails"
         THEN /\ reset' = [reset EXCEPT ![t] = "failed"]
              /\ transaction_resets' = transaction_resets + 1
              /\ CloseConnection(held[t])
              /\ ReleaseReturns(t)
         ELSE /\ reset' = [reset EXCEPT ![t] = "done"]
              /\ transaction_resets' = transaction_resets + 1
              /\ pc' = [pc EXCEPT ![t] = "rel_put"]
              /\ UNCHANGED <<created_count, conn_open, closed_twice, held,
                             outcome, exc>>
    /\ UNCHANGED <<max_size, queue, closed, total_acquisitions,
                   total_releases, failed_acquisitions, health_check_count,
                   in_use, peak_usage, calls, closerVars, stampVars, deadline,
                   nonPool>>

\* is_stale, then _reset_connection: rollback, counted under the lock when
\* it succeeds; a stale entry or a failed rollback closes the entry.
RelReset(t, verdict) ==
    /\ pc[t] = "rel_reset"
    /\ IF verdict = "stale"
         THEN /\ CloseConnection(held[t])
              /\ ReleaseReturns(t)
              /\ UNCHANGED <<transaction_resets, reset>>
         ELSE IF verdict = "rollback_fails"
         THEN /\ reset' = [reset EXCEPT ![t] = "failed"]
              /\ CloseConnection(held[t])
              /\ ReleaseReturns(t)
              /\ UNCHANGED transaction_resets
         ELSE /\ reset' = [reset EXCEPT ![t] = "done"]
              /\ transaction_resets' = transaction_resets + 1
              /\ pc' = [pc EXCEPT ![t] = "rel_put"]
              /\ UNCHANGED <<created_count, conn_open, closed_twice, held,
                             outcome, exc>>
    /\ UNCHANGED <<max_size, queue, closed, total_acquisitions,
                   total_releases, failed_acquisitions, health_check_count,
                   in_use, peak_usage, calls, closerVars, stampVars, deadline,
                   nonPool>>

\* put_nowait; on queue.Full the entry is closed.
RelPut(t) ==
    /\ pc[t] = "rel_put"
    /\ IF Len(queue) < max_size
         THEN /\ queue' = Append(queue, held[t])
              /\ parked_at' = [parked_at EXCEPT ![held[t]] = ptime]
              /\ UNCHANGED <<created_count, conn_open, closed_twice>>
         ELSE /\ CloseConnection(held[t])
              /\ UNCHANGED <<queue, parked_at>>
    /\ ReleaseReturns(t)
    /\ UNCHANGED <<max_size, closed, total_acquisitions, total_releases,
                   failed_acquisitions, health_check_count,
                   transaction_resets, in_use, peak_usage, reset, calls,
                   closerVars, stamps, deadline,
                   nonPool>>

\* ----------------------------------------------------------------- close
\* self._closed = True
Close ==
    /\ cpc = "idle"
    /\ closed' = TRUE
    /\ cpc' = "drain"
    /\ UNCHANGED <<max_size, queue, created_count, total_acquisitions,
                   total_releases, failed_acquisitions, health_check_count,
                   transaction_resets, in_use, peak_usage, conn_open,
                   closed_twice, clientVars, cheld, stampVars,
                   nonPool>>

\* get_nowait: take the next parked entry, or leave the loop on Empty.
CloseDrain ==
    /\ cpc = "drain"
    /\ IF queue # << >>
         THEN /\ cheld' = Head(queue)
              /\ queue' = Tail(queue)
              /\ parked_at' = [parked_at EXCEPT ![Head(queue)] = 0]
              /\ cpc' = "drain_close"
         ELSE /\ cpc' = "done"
              /\ UNCHANGED <<queue, cheld, parked_at>>
    /\ UNCHANGED <<max_size, created_count, closed, total_acquisitions,
                   total_releases, failed_acquisitions, health_check_count,
                   transaction_resets, in_use, peak_usage, conn_open,
                   closed_twice, clientVars, stamps,
                   nonPool>>

\* _close_connection on the drained entry.
CloseDrained ==
    /\ cpc = "drain_close"
    /\ CloseConnection(cheld)
    /\ cheld' = NoEntry
    /\ cpc' = "drain"
    /\ UNCHANGED <<max_size, queue, closed, total_acquisitions,
                   total_releases, failed_acquisitions, health_check_count,
                   transaction_resets, in_use, peak_usage, clientVars,
                   stampVars,
                   nonPool>>

\* ------------------------------------------------------ DatabaseRegistry
\* self._managers.get(name): the handle published for name, if any.
Lookup(name) ==
    IF \E i \in 1..Len(managers) : managers[i].name = name
      THEN managers[CHOOSE i \in 1..Len(managers) :
                       managers[i].name = name].h
      ELSE NoHandle

\* DatabaseManager.close() is called on handle h.
CloseHandle(h, raises) ==
    /\ handles' = [handles EXCEPT ![h].closes = @ + 1]
    /\ rfailed' = IF raises THEN rfailed \cup {h} ELSE rfailed

\* get, fast path: `name in self._managers`, then `name not in
\* self._configs`, which raises the KeyError listing the aliases.
Get(g, name) ==
    /\ gpc[g] = "idle"
    /\ gets < MaxGets
    /\ gets' = gets + 1
    /\ galias' = [galias EXCEPT ![g] = name]
    /\ gh' = [gh EXCEPT ![g] = NoHandle]
    /\ IF Lookup(name) # NoHandle
         THEN /\ gpc' = [gpc EXCEPT ![g] = "fast_read"]
              /\ gout' = [gout EXCEPT ![g] = "none"]
         ELSE IF name \notin Configured
         THEN /\ gpc' = gpc
              /\ gout' = [gout EXCEPT ![g] = "unknown_alias"]
         ELSE /\ gpc' = [gpc EXCEPT ![g] = "want_lock"]
              /\ gout' = [gout EXCEPT ![g] = "none"]
    /\ UNCHANGED <<regVars, regCloserVars, nonRegistry>>

\* `return self._managers[name]`, on the fast path and after the lock
\* block: the subscript raises KeyError when the name is no longer there.
GetRead(g) ==
    /\ gpc[g] \in {"fast_read", "slow_read"}
    /\ gpc' = [gpc EXCEPT ![g] = "idle"]
    /\ IF Lookup(galias[g]) # NoHandle
         THEN /\ gout' = [gout EXCEPT ![g] = "handle"]
              /\ gh' = [gh EXCEPT ![g] = Lookup(galias[g])]
         ELSE /\ gout' = [gout EXCEPT ![g] = "key_error"]
              /\ UNCHANGED gh
    /\ UNCHANGED <<regVars, galias, gets, regCloserVars, nonRegistry>>

\* Mutant of GetLocked: the second check under the lock is missing.
MutGetLockedNoRecheck(g) ==
    /\ gpc[g] = "want_lock"
    /\ rlock = "free"
    /\ handles' = Append(handles, [name |-> galias[g], closes |-> 0])
    /\ managers' =
          Append(SelectSeq(managers, LAMBDA m : m.name # galias[g]),
                 [name |-> galias[g], h |-> Len(handles) + 1])
    /\ gpc' = [gpc EXCEPT ![g] = "slow_read"]
    /\ UNCHANGED <<rlock, galias, gout, gh, gets, regCloserVars,
                   nonRegistry>>

\* `with self._lock`: check again, construct the DatabaseManager, publish.
GetLocked(g) ==
    /\ gpc[g] = "want_lock"
    /\ rlock = "free"
    /\ IF Lookup(galias[g]) = NoHandle
         THEN /\ handles' =
                    Append(handles, [name |-> galias[g], closes |-> 0])
              /\ managers' =
                    Append(managers,
                           [name |-> galias[g], h |-> Len(handles) + 1])
         ELSE UNCHANGED <<handles, managers>>
    /\ gpc' = [gpc EXCEPT ![g] = "slow_read"]
    /\ UNCHANGED <<rlock, galias, gout, gh, gets, regCloserVars,
                   nonRegistry>>

\* close(): take the lock and start the loop over self._managers.items().
RegClose ==
    /\ rpc = "idle"
    /\ rcloses < MaxRegCloses
    /\ rlock = "free"
    /\ rcloses' = rcloses + 1
    /\ rlock' = "closer"
    /\ rpc' = "close_loop"
    /\ ridx' = 1
    /\ rout' = "none"
    /\ UNCHANGED <<managers, handles, rh, rfailed, getterVars, nonRegistry>>

\* Mutant of RegCloseNext: no try/except around manager.close(), so an
\* exception leaves close() at once.
MutRegCloseNextNoCatch(raises) ==
    /\ rpc = "close_loop"
    /\ ridx <= Len(managers)
    /\ CloseHandle(managers[ridx].h, raises)
    /\ IF raises
         THEN /\ rlock' = "free"
              /\ rpc' = "idle"
              /\ rout' = "raised"
              /\ UNCHANGED ridx
         ELSE /\ ridx' = ridx + 1
              /\ UNCHANGED <<rlock, rpc, rout>>
    /\ UNCHANGED <<managers, rh, rcloses, getterVars, nonRegistry>>

\* One iteration of the loop: manager.close(), an exception is logged.
RegCloseNext(raises) ==
    /\ rpc = "close_loop"
    /\ ridx <= Len(managers)
    /\ CloseHandle(managers[ridx].h, raises)
    /\ ridx' = ridx + 1
    /\ UNCHANGED <<managers, rlock, rpc, rh, rout, rcloses, getterVars,
                   nonRegistry>>

\* After the loop: self._managers.clear(), the lock is released.
RegCloseClear ==
    /\ rpc = "close_loop"
    /\ ridx > Len(managers)
    /\ managers' = << >>
    /\ rlock' = "free"
    /\ rpc' = "idle"
    /\ rout' = "ok"
    /\ UNCHANGED <<handles, ridx, rh, rfailed, rcloses, getterVars,
                   nonRegistry>>

\* close_database(name): KeyError for an unknown name; otherwise take the
\* lock and pop the handle.
RegCloseDatabase(name) ==
    /\ rpc = "idle"
    /\ rcloses < MaxRegCloses
    /\ rcloses' = rcloses + 1
    /\ IF name \notin Configured
         THEN /\ rout' = "unknown_alias"
              /\ UNCHANGED <<managers, rlock, rpc, rh>>
         ELSE /\ rlock = "free"
              /\ managers' = SelectSeq(managers, LAMBDA m : m.name # name)
              /\ IF Lookup(name) # NoHandle
                   THEN /\ rlock' = "closer"
                        /\ rpc' = "closedb_close"
                        /\ rh' = Lookup(name)
                        /\ rout' = "none"
                   ELSE /\ rout' = "ok"
                        /\ UNCHANGED <<rlock, rpc, rh>>
    /\ UNCHANGED <<handles, ridx, rfailed, getterVars, nonRegistry>>

\* close_database: manager.close() on the popped handle; an exception
\* propagates to the caller, the lock is released either way.
RegCloseDatabaseClose(raises) ==
    /\ rpc = "closedb_close"
    /\ CloseHandle(rh, raises)
    /\ rh' = NoHandle
    /\ rlock' = "free"
    /\ rpc' = "idle"
    /\ rout' = IF raises THEN "raised" ELSE "ok"
    /\ UNCHANGED <<managers, ridx, rcloses, getterVars, nonRegistry>>

\* ------------------------------------------------------ DatabaseManager
\* A user's call is over: get_cursor, execute_query or execute_statement
\* returns or raises.
HandleReturns(u, result) ==
    /\ hpc' = [hpc EXCEPT ![u] = "idle"]
    /\ hlocal' = [hlocal EXCEPT ![u] = NoPool]
    /\ hout' = [hout EXCEPT ![u] = result]

\* get_cursor / execute_statement call _get_pool: `if self._pool is None`.
HandleCall(u) ==
    /\ hpc[u] = "idle"
    /\ hcalls < MaxHandleCalls
    /\ hcalls' = hcalls + 1
    /\ hout' = [hout EXCEPT ![u] = "none"]
    /\ hlate' = [hlate EXCEPT ![u] =
                    hpool = NoPool /\ hpools # << >> /\ hcpc = "idle"]
    /\ hpc' = [hpc EXCEPT ![u] =
                  IF hpool = NoPool THEN "h_construct" ELSE "h_return"]
    /\ UNCHANGED <<hpool, hpools, hlocal, hcpc, hcloses, nonHandle>>

\* _get_pool: self._pool = ConnectionPool(config, pool_config).  The
\* constructor opens up to min_size = 1 connections eagerly and parks them.
HandleConstruct(u, k) ==
    /\ hpc[u] = "h_construct"
    /\ hpools' = Append(hpools,
                        [closed |-> FALSE, created |-> k, parked |-> k])
    /\ hpool' = Len(hpools) + 1
    /\ hpc' = [hpc EXCEPT ![u] = "h_return"]
    /\ UNCHANGED <<hlocal, hout, hcalls, hlate, hcpc, hcloses, nonHandle>>

\* _get_pool: `return self._pool`, bound to the caller's local `pool`.
HandleReturnPool(u) ==
    /\ hpc[u] = "h_return"
    /\ hlocal' = [hlocal EXCEPT ![u] = hpool]
    /\ hpc' = [hpc EXCEPT ![u] = "h_acquire"]
    /\ UNCHANGED <<hpool, hpools, hout, hcalls, hlate, hcpc, hcloses,
                   nonHandle>>

\* `with pool.connection()`: acquire on the caller's pool.  None has no
\* connection attribute; a closed pool raises "Pool is closed"; otherwise a
\* parked entry is handed out, or a connection is opened when there is
\* room and the driver connects, or the call times out.
HandleAcquire(u, connects) ==
    /\ hpc[u] = "h_acquire"
    /\ IF hlocal[u] = NoPool
         THEN /\ HandleReturns(u, "attribute_error")
              /\ UNCHANGED hpools
         ELSE IF hpools[hlocal[u]].closed
         THEN /\ HandleReturns(u, "pool_closed")
              /\ UNCHANGED hpools
         ELSE IF hpools[hlocal[u]].parked > 0
         THEN /\ hpools' = [hpools EXCEPT ![hlocal[u]].parked = @ - 1]
              /\ hpc' = [hpc EXCEPT ![u] = "h_body"]
              /\ UNCHANGED <<hlocal, hout>>
         ELSE IF hpools[hlocal[u]].created < MaxPoolSize /\ connects
         THEN /\ hpools' = [hpools EXCEPT ![hlocal[u]].created = @ + 1]
              /\ hpc' = [hpc EXCEPT ![u] = "h_body"]
              /\ UNCHANGED <<hlocal, hout>>
         ELSE /\ HandleReturns(u, "timeout")
              /\ UNCHANGED hpools
    /\ UNCHANGED <<hpool, hcalls, hlate, hcpc, hcloses, nonHandle>>

\* The scope ends, normally or with an error, and the entry is released:
\* closed when the pool is closed by then, parked otherwise.
HandleRelease(u, raises) ==
    /\ hpc[u] = "h_body"
    /\ hpools' = IF hpools[hlocal[u]].closed
                   THEN [hpools EXCEPT ![hlocal[u]].created = @ - 1]
                   ELSE [hpools EXCEPT ![hlocal[u]].parked = @ + 1]
    /\ HandleReturns(u, IF raises THEN "error" ELSE "ok")
    /\ UNCHANGED <<hpool, hcalls, hlate, hcpc, hcloses, nonHandle>>

\* DatabaseManager.close(): `if self._pool:`.
HandleClose ==
    /\ hcpc = "idle"
    /\ hcloses < MaxHandleCloses
    /\ IF hpool # NoPool
         THEN /\ hcpc' = "close_pool"
              /\ UNCHANGED hcloses
         ELSE /\ hcloses' = hcloses + 1
              /\ UNCHANGED hcpc
    /\ UNCHANGED <<hpool, hpools, hpc, hlocal, hout, hcalls, hlate,
                   nonHandle>>

\* close(): self._pool.close() sets the pool's flag and closes what is
\* parked in it.
HandleClosePool ==
    /\ hcpc = "close_pool"
    /\ hpools' = [hpools EXCEPT ![hpool] =
                      [closed |-> TRUE,
                       created |-> @.created - @.parked,
                       parked |-> 0]]
    /\ hcpc' = "close_clear"
    /\ UNCHANGED <<hpool, hpc, hlocal, hout, hcalls, hlate, hcloses,
                   nonHandle>>

\* close(): self._pool = None, and close() returns.
HandleCloseClear ==
    /\ hcpc = "close_clear"
    /\ hpool' = NoPool
    /\ hcpc' = "idle"
    /\ hcloses' = hcloses + 1
    /\ UNCHANGED <<hpools, hpc, hlocal, hout, hcalls, hlate, nonHandle>>

\* ---------------------------------------------- operations on a connection
\* The operation is over: the value is returned or the exception raised.
SessionReturns ==
    /\ spc' = "idle"
    /\ sout' = IF serr = NoError THEN Returned(sval) ELSE Raised(serr)

\* get_cursor, execute_query (which uses get_cursor) or execute_statement
\* is called on a handle that pools or does not: `with pool.connection()`
\* borrows a connection or acquire raises; connect() returns the handle's
\* connection or pyodbc.connect raises.  Then connection.cursor().  A
\* handle that does not pool keeps its one connection from call to call
\* while it is valid (connect() connects anew only when it is not).
SessionCall(op, pooled, ok) ==
    /\ spc = "idle"
    /\ scalls < MaxSessionCalls
    /\ scalls' = scalls + 1
    /\ sop' = [op |-> op, pooled |-> pooled]
    /\ serr' = NoError
    /\ sval' = 0
    /\ IF ok
         THEN /\ slog' = <<IF pooled THEN "acquire" ELSE "connect", "cursor">>
              /\ spc' = "s_body"
              /\ sout' = NoOutcome
         ELSE /\ slog' = << >>
              /\ spc' = "idle"
              /\ sout' = Raised(IF pooled THEN "acquire failed"
                                         ELSE "connect failed")
    /\ swork' = IF ok \/ pooled THEN swork
                               ELSE [swork EXCEPT ![FALSE] = {}]
    /\ UNCHANGED <<sdurable, nonSession>>

\* Mutant of SessionBody: the statement is executed and never committed.
MutSessionBodyNoCommit(result, n) ==
    /\ spc = "s_body"
    /\ result \in BodyResults(sop.op)
    /\ IF result = "ok"
         THEN /\ slog' = Append(slog, "execute")
              /\ sval' = IF sop.op = "get_cursor" THEN 0 ELSE n
              /\ spc' = "s_close"
              /\ UNCHANGED serr
         ELSE /\ slog' = Append(slog, result)
              /\ serr' = result
              /\ spc' = "s_rollback"
              /\ UNCHANGED sval
    /\ swork' = [swork EXCEPT ![sop.pooled] = @ \cup {sop.op}]
    /\ UNCHANGED <<sop, sout, scalls, sdurable, nonSession>>

\* The code inside the try block: cursor.execute and then cursor.rowcount
\* (execute_statement) or fetchall (execute_query), or the body of the
\* caller's `with get_cursor()`.  It ends normally with n rows affected
\* or fetched, or raises.  Whatever it ran (an EXEC of a procedure that
\* writes, for one) may have changed data in the connection's open
\* transaction: no connection is made with autocommit.
SessionBody(result, n) ==
    /\ spc = "s_body"
    /\ result \in BodyResults(sop.op)
    /\ IF result = "ok"
         THEN /\ slog' = Append(slog, "execute")
              /\ sval' = IF sop.op = "get_cursor" THEN 0 ELSE n
              /\ spc' = IF sop.op = "execute_statement" THEN "s_commit"
                                                        ELSE "s_close"
              /\ UNCHANGED serr
         ELSE /\ slog' = Append(slog, result)
              /\ serr' = result
              /\ spc' = "s_rollback"
              /\ UNCHANGED sval
    /\ swork' = [swork EXCEPT ![sop.pooled] = @ \cup {sop.op}]
    /\ UNCHANGED <<sop, sout, scalls, sdurable, nonSession>>

\* execute_statement: connection.commit(), which the driver lets succeed
\* or fail.
SessionCommit(ok) ==
    /\ spc = "s_commit"
    /\ IF ok
         THEN /\ slog' = Append(slog, "commit")
              /\ spc' = "s_close"
              /\ sdurable' = sdurable \cup
                     {[op |-> o, pooled |-> sop.pooled] :
                         o \in swork[sop.pooled]}
              /\ swork' = [swork EXCEPT ![sop.pooled] = {}]
              /\ UNCHANGED serr
         ELSE /\ slog' = Append(slog, "commit failed")
              /\ serr' = "commit failed"
              /\ spc' = "s_rollback"
              /\ UNCHANGED <<swork, sdurable>>
    /\ UNCHANGED <<sop, sval, sout, scalls, nonSession>>

\* Mutant of SessionRollback: an exception of rollback() is not caught.
MutSessionRollbackRaises(ok) ==
    /\ spc = "s_rollback"
    /\ slog' = Append(slog, IF ok THEN "rollback" ELSE "rollback failed")
    /\ serr' = IF ok THEN serr ELSE "rollback failed"
    /\ spc' = "s_close"
    /\ swork' = IF ok THEN [swork EXCEPT ![sop.pooled] = {}] ELSE swork
    /\ UNCHANGED <<sop, sval, sout, scalls, sdurable, nonSession>>

\* except Exception as e: connection.rollback() in a try of its own, whose
\* failure is logged and dropped; then `raise`.
SessionRollback(ok) ==
    /\ spc = "s_rollback"
    /\ slog' = Append(slog, IF ok THEN "rollback" ELSE "rollback failed")
    /\ spc' = "s_close"
    /\ swork' = IF ok THEN [swork EXCEPT ![sop.pooled] = {}] ELSE swork
    /\ UNCHANGED <<sop, serr, sval, sout, scalls, sdurable, nonSession>>

\* finally: cursor.close(), which raises only on a cursor that is closed
\* already.  A handle that does not pool is done.
SessionCloseCursor ==
    /\ spc = "s_close"
    /\ slog' = Append(slog, "cursor.close")
    /\ IF sop.pooled
         THEN /\ spc' = "s_release"
              /\ UNCHANGED sout
         ELSE SessionReturns
    /\ UNCHANGED <<sop, serr, sval, scalls, swork, sdurable, nonSession>>

\* Mutant of SessionRelease: the connection goes back to the pool as the
\* call left it.
MutSessionReleaseNoReset ==
    /\ spc = "s_release"
    /\ slog' = Append(slog, "release")
    /\ SessionReturns
    /\ UNCHANGED <<sop, serr, sval, scalls, swork, sdurable, nonSession>>

\* The finally of pool.connection(): release(pooled_conn), which rolls the
\* connection back before it parks it and closes it when it does not park
\* it; either way what the connection had not committed is gone.
SessionRelease ==
    /\ spc = "s_release"
    /\ slog' = Append(slog, "release")
    /\ SessionReturns
    /\ swork' = [swork EXCEPT ![TRUE] = {}]
    /\ UNCHANGED <<sop, serr, sval, scalls, sdurable, nonSession>>

\* -------------------------------------------------------------- TTLCache
\* get(key) under the lock: found, the value returned, and _cache after
\* the call (an entry found expired is deleted).
\* Mutant of CacheHit: an entry is still served at its expiry time.
MutCacheHitAtExpiry(k) == k \in DOMAIN tcache /\ now <= tcache[k].expires

CacheHit(k) == k \in DOMAIN tcache /\ now < tcache[k].expires
GetValue(k) == IF CacheHit(k) THEN tcache[k].value ELSE NoneValue
AfterGet(k) ==
    IF k \in DOMAIN tcache /\ ~(now < tcache[k].expires)
      THEN Drop(tcache, {k})
      ELSE tcache

\* time.time() advances.
Tick ==
    /\ now < MaxTime
    /\ now' = now + 1
    /\ UNCHANGED <<tcache, tlive, invoked, served, wrapperVars, directVars,
                   nonCache>>

\* The wrapper returns or raises: its locals are gone.
CachedReturns(w, result) ==
    /\ wpc' = [wpc EXCEPT ![w] = "idle"]
    /\ wcall' = [wcall EXCEPT ![w] = NoCall]
    /\ wval' = [wval EXCEPT ![w] = NoneValue]
    /\ wout' = [wout EXCEPT ![w] = result]

\* cached.wrapper is called with arguments c and builds the key.
CachedCall(w, c) ==
    /\ wpc[w] = "idle"
    /\ wcalls < MaxCachedCalls
    /\ wcalls' = wcalls + 1
    /\ wcall' = [wcall EXCEPT ![w] = c]
    /\ wout' = [wout EXCEPT ![w] = "none"]
    /\ wpc' = [wpc EXCEPT ![w] = "w_get"]
    /\ UNCHANGED <<cacheVars, wval, directVars, nonCache>>

\* value, found = cache.get(cache_key); a hit is returned at once.
CachedGet(w) ==
    /\ wpc[w] = "w_get"
    /\ tcache' = AfterGet(KeyOf[wcall[w]])
    /\ IF CacheHit(KeyOf[wcall[w]])
         THEN /\ CachedReturns(w, "hit")
              /\ served' = [call |-> wcall[w],
                            value |-> GetValue(KeyOf[wcall[w]])]
         ELSE /\ wpc' = [wpc EXCEPT ![w] = "w_func"]
              /\ UNCHANGED <<wcall, wval, wout, served>>
    /\ UNCHANGED <<now, tlive, invoked, wcalls, directVars, nonCache>>

\* Mutant of CachedFunc: an exception of the wrapped function is stored
\* under the call's key like a result before it leaves the wrapper.
MutCachedFuncStoresFailure(w, raises) ==
    /\ wpc[w] = "w_func"
    /\ IF raises
         THEN /\ CachedReturns(w, "raised")
              /\ LET entry == [value |-> NoneValue,
                               expires |-> now + MetadataCacheTtl]
                 IN /\ tcache' = Put(tcache, KeyOf[wcall[w]], entry)
                    /\ tlive' = Put(tlive, KeyOf[wcall[w]], entry)
              /\ UNCHANGED invoked
         ELSE /\ invoked' = [invoked EXCEPT ![wcall[w]] = @ + 1]
              /\ wval' = [wval EXCEPT ![w] = Answer(Bound(wcall[w]), now)]
              /\ wpc' = [wpc EXCEPT ![w] = "w_write"]
              /\ UNCHANGED <<wcall, wout, tcache, tlive>>
    /\ UNCHANGED <<now, served, wcalls, directVars, nonCache>>

\* result = func(*args, **kwargs): the wrapped function runs and returns
\* what the database answers now, or raises, which leaves the wrapper.
\* cache.set(cache_key, result, ttl) then reads the clock, so the entry
\* will expire at now + ttl.
CachedFunc(w, raises) ==
    /\ wpc[w] = "w_func"
    /\ IF raises
         THEN /\ CachedReturns(w, "raised")
              /\ UNCHANGED invoked
         ELSE /\ invoked' = [invoked EXCEPT ![wcall[w]] = @ + 1]
              /\ wval' = [wval EXCEPT ![w] = Answer(Bound(wcall[w]), now)]
              /\ wpc' = [wpc EXCEPT ![w] = "w_write"]
              /\ UNCHANGED <<wcall, wout>>
    /\ UNCHANGED <<now, tcache, tlive, served, wcalls, directVars, nonCache>>

\* cache.set: the write under the lock; the wrapper returns the result.
CachedSetWrite(w) ==
    /\ wpc[w] = "w_write"
    /\ LET entry == [value |-> wval[w],
                     expires |-> wval[w].at + MetadataCacheTtl]
       IN /\ tcache' = Put(tcache, KeyOf[wcall[w]], entry)
          /\ tlive' = Put(tlive, KeyOf[wcall[w]], entry)
    /\ CachedReturns(w, "computed")
    /\ UNCHANGED <<now, invoked, served, wcalls, directVars, nonCache>>

\* invalidate_metadata_cache(): get_metadata_cache().clear(), called
\* while threads are inside the wrapper; one of the calls MaxCachedCalls
\* bounds.
InvalidateMetadataCache ==
    /\ wcalls < MaxCachedCalls
    /\ wcalls' = wcalls + 1
    /\ mops' = mops + 1
    /\ tcache' = EmptyMap
    /\ tlive' = EmptyMap
    /\ UNCHANGED <<now, invoked, served, wpc, wcall, wval, wout, mpc, mkey,
                   mval, mexp, mres, mcount, nonCache>>

\* A direct call starts.
DirectStarts(k) ==
    /\ mpc = "idle"
    /\ mops < MaxCacheOps
    /\ mops' = mops + 1
    /\ mkey' = k

\* TTLCache.get(key)
DirectGet(k) ==
    /\ DirectStarts(k)
    /\ mres' = IF CacheHit(k) THEN "found" ELSE "missing"
    /\ mval' = GetValue(k)
    /\ tcache' = AfterGet(k)
    /\ UNCHANGED <<now, tlive, invoked, served, mpc, mexp, mcount, wrapperVars,
                   nonCache>>

\* TTLCache.set(key, value, ttl): expires_at is computed before the lock
\* is taken; ttl = None stands for default_ttl.
DirectSet(k, v, ttl) ==
    /\ DirectStarts(k)
    /\ mval' = v
    /\ mexp' = now + ttl
    /\ mpc' = "m_write"
    /\ mres' = "none"
    /\ UNCHANGED <<cacheVars, mcount, wrapperVars, nonCache>>

\* TTLCache.set: the write under the lock.
DirectSetWrite ==
    /\ mpc = "m_write"
    /\ tcache' = Put(tcache, mkey, [value |-> mval, expires |-> mexp])
    /\ tlive' = Put(tlive, mkey, [value |-> mval, expires |-> mexp])
    /\ mpc' = "idle"
    /\ mres' = "set"
    /\ mexp' = 0
    /\ UNCHANGED <<now, invoked, served, mkey, mval, mcount, mops, wrapperVars,
                   nonCache>>

\* TTLCache.invalidate(key)
DirectInvalidate(k) ==
    /\ DirectStarts(k)
    /\ mres' = IF k \in DOMAIN tcache THEN "removed" ELSE "absent"
    /\ tcache' = Drop(tcache, {k})
    /\ tlive' = Drop(tlive, {k})
    /\ UNCHANGED <<now, invoked, served, mpc, mval, mexp, mcount, wrapperVars,
                   nonCache>>

\* TTLCache.clear(), also reached through invalidate_metadata_cache().
DirectClear ==
    /\ DirectStarts("")
    /\ mres' = "cleared"
    /\ mcount' = Cardinality(DOMAIN tcache)
    /\ tcache' = EmptyMap
    /\ tlive' = EmptyMap
    /\ UNCHANGED <<now, invoked, served, mpc, mval, mexp, wrapperVars,
                   nonCache>>

\* TTLCache.cleanup_expired(): now = time.time(), read before the lock.
DirectCleanup ==
    /\ DirectStarts("")
    /\ mexp' = now
    /\ mpc' = "m_sweep"
    /\ mres' = "none"
    /\ UNCHANGED <<cacheVars, mval, mcount, wrapperVars, nonCache>>

\* cleanup_expired: under the lock, delete every key with
\* now >= expires_at and return their number.
DirectCleanupSweep ==
    /\ mpc = "m_sweep"
    /\ LET expired == {k \in DOMAIN tcache : mexp >= tcache[k].expires}
       IN /\ tcache' = Drop(tcache, expired)
          /\ mcount' = Cardinality(expired)
    /\ mpc' = "idle"
    /\ mres' = "swept"
    /\ mexp' = 0
    /\ UNCHANGED <<now, tlive, invoked, served, mkey, mval, mops, wrapperVars,
                   nonCache>>

\* ------------------------------------------------------------- pipeline
\* An operation is called: its checks of the arguments, for a metadata
\* operation the lookup in the cache, and for an operation that is timed
\* the clamping of the limit and the opening of the timing window.  A call
\* that is rejected or answered from the cache returns here.
PipelineCall(op, arg, limit, database) ==
    /\ qpc = "idle"
    /\ qcalls < MaxPipelineCalls
    /\ qcalls' = qcalls + 1
    /\ qin' = [op |-> op, arg |-> arg, limit |-> limit,
               database |-> database]
    /\ qrows' = -1 /\ qerr' = NoMessage
    /\ qsent' = << >>
    /\ qelapsed' = 0 /\ qtiming' = -1
    /\ IF Validate(op, arg) # NoMessage
         THEN /\ qresp' = ErrorShape(Validate(op, arg))
              /\ qaudit' =
                    IF ValidationAudited(op, arg)
                      THEN <<AuditRecord("VALIDATION_FAILED", database,
                                         Absent, -1, -1, Absent,
                                         Validate(op, arg), Absent)>>
                      ELSE << >>
              /\ qpc' = "idle"
              /\ qlimit' = 0 /\ qfetch' = 0
              /\ UNCHANGED tcache
         ELSE /\ qaudit' = << >>
              /\ qlimit' = IF op \in QueryOps THEN ClampLimit(limit) ELSE 0
              /\ qfetch' = IF op \in QueryOps
                             THEN FetchLimit(ClampLimit(limit)) ELSE 0
              /\ IF op \in CachedOps
                   THEN /\ tcache' = AfterGet(MetadataKey(op, arg, database))
                        /\ IF CacheHit(MetadataKey(op, arg, database))
                             THEN /\ qresp' = SuccessShape(0, FALSE)
                                  /\ qpc' = "idle"
                             ELSE /\ qresp' = NoResponse
                                  /\ qpc' = "q_db"
                   ELSE /\ qresp' = NoResponse
                        /\ qpc' = "q_db"
                        /\ UNCHANGED tcache
    /\ UNCHANGED <<now, tlive, invoked, served, regVars, qacquired,
                   nonPipeline>>

\* _get_db(database).execute_query(...) or .execute_statement(...): the
\* registry returns the handle of the alias, constructing it if the alias
\* is configured and has none, or raises the KeyError; the handle borrows
\* a connection and the driver returns rows, at most the TOP ceiling of
\* them, or raises an error with message msg (NoMessage: no error);
\* elapsed is the time all this takes.  An operation that is not timed
\* returns here, a metadata operation storing its answer in the cache.
PipelineDb(avail, msg, elapsed) ==
    /\ qpc = "q_db"
    /\ qelapsed' = elapsed
    /\ IF Lookup(qin.database) = NoHandle /\ ~HasConfig(qin.database)
         THEN /\ qerr' = KeyErrorMessage(qin.database)
              /\ qrows' = -1
              /\ UNCHANGED <<regVars, qacquired, qsent>>
         ELSE /\ IF Lookup(qin.database) = NoHandle
                   THEN /\ handles' =
                              Append(handles,
                                     [name |-> qin.database, closes |-> 0])
                        /\ managers' =
                              Append(managers,
                                     [name |-> qin.database,
                                      h |-> Len(handles) + 1])
                   ELSE UNCHANGED <<handles, managers>>
              /\ UNCHANGED rlock
              /\ qacquired' = qacquired + 1
              /\ qsent' = SentOf(qin.op, qin.arg, qlimit)
              /\ qerr' = msg
              /\ qrows' = IF msg # NoMessage THEN -1
                          ELSE IF qin.op \in QueryOps THEN Min(avail, qfetch)
                          ELSE avail
    /\ IF qin.op \in TimedOps
         THEN /\ qpc' = "q_audit"
              /\ UNCHANGED <<qresp, tcache, tlive>>
         ELSE /\ qpc' = "idle"
              /\ qresp' =
                    IF qerr' # NoMessage THEN ErrorShape(qerr')
                    ELSE IF qin.op \notin CachedOps /\ qrows' = 0
                    THEN ErrorShape(<<Tok("plain", "Definition not found:"),
                                      Tok("word", NameOf(qin.arg))>>)
                    ELSE SuccessShape(qrows', FALSE)
              /\ IF qin.op \in CachedOps /\ qerr' = NoMessage
                   THEN LET k == MetadataKey(qin.op, qin.arg, qin.database)
                            entry == [value |-> Answer(NoBinding, now),
                                      expires |-> now + MetadataCacheTtl]
                        IN /\ tcache' = Put(tcache, k, entry)
                           /\ tlive' = Put(tlive, k, entry)
                   ELSE UNCHANGED <<tcache, tlive>>
    /\ UNCHANGED <<now, invoked, served, qin, qlimit, qfetch, qtiming, qaudit,
                   qcalls, nonPipeline>>

\* Inside the timing window: the surplus row is dropped and the audit
\* record is emitted with timing.get("duration_ms", 0), then the result
\* is built; an exception is sanitised, audited and turned into
\* create_error_response(e).
PipelineAudit ==
    /\ qpc = "q_audit"
    /\ LET duration == IF qtiming = -1 THEN 0 ELSE qtiming
           truncated == qin.op \in QueryOps /\ qrows > qlimit
           kept == IF truncated THEN qlimit ELSE qrows
       IN IF qerr = NoMessage
            THEN /\ qaudit' =
                       Append(qaudit,
                              AuditRecord(EventOf(qin.op), qin.database, TRUE,
                                          duration, kept, truncated,
                                          NoMessage, Absent))
                 /\ qresp' = SuccessShape(kept, truncated)
            ELSE /\ qaudit' =
                       Append(qaudit,
                              AuditRecord(EventOf(qin.op), qin.database, FALSE,
                                          duration, 0, FALSE,
                                          SanitizeError(qerr), Absent))
                 /\ qresp' = CreateErrorResponse(qerr)
    /\ qpc' = "q_exit"
    /\ UNCHANGED <<cacheVars, regVars, qin, qlimit, qfetch, qsent, qrows,
                   qerr, qelapsed, qtiming, qacquired, qcalls, nonPipeline>>

\* timed_operation's finally, as the return statement leaves the with
\* block: timing["duration_ms"] is set, and the operation returns.
PipelineExit ==
    /\ qpc = "q_exit"
    /\ qtiming' = qelapsed
    /\ qpc' = "idle"
    /\ UNCHANGED <<cacheVars, regVars, qin, qlimit, qfetch, qsent, qrows,
                   qerr, qelapsed, qresp, qaudit, qacquired, qcalls,
                   nonPipeline>>

\* ------------------------------------------------------------------ Next
AcqVerdicts == {"stale", "idle", "unhealthy", "healthy", "fresh"}
RelVerdicts == {"stale", "rollback_fails", "ok"}

Next ==
    \/ \E t \in Clients : Acquire(t)
    \/ \E t \in Clients : AcqTimeout(t)
    \/ \E t \in Clients : AcqGet(t)
    \/ \E t \in Clients : AcqEmpty(t)
    \/ \E t \in Clients, v \in AcqVerdicts : AcqCheck(t, v)
    \/ \E t \in Clients : AcqCanCreate(t)
    \/ \E t \in Clients : AcqCreate(t)
    \/ \E t \in Clients, ok \in BOOLEAN : AcqConnect(t, ok)
    \/ \E t \in Clients, raises \in BOOLEAN : Body(t, raises)
    \/ \E t \in Clients : RelStart(t)
    \/ \E t \in Clients : RelCheckClosed(t)
    \/ \E t \in Clients, v \in RelVerdicts : RelReset(t, v)
    \/ \E t \in Clients : RelPut(t)
    \/ Close
    \/ CloseDrain
    \/ CloseDrained

Spec == Init /\ [][Next]_vars

\* ------------------------------------------------- the pool under a clock
\* In Spec the clock stands still and the verdicts on an entry are free.
\* SpecTimed lets the clock advance and computes each verdict from the
\* entry's timestamps and the settings, as PooledConnection does.

\* Mutant of IsStale: max_lifetime = 0 does not disable the check.
MutIsStaleNoDisable(e) ==
    (ptime - stamps[e].created_at) > settings.max_lifetime

\* PooledConnection.is_stale
IsStale(e) ==
    IF settings.max_lifetime <= 0 THEN FALSE
    ELSE (ptime - stamps[e].created_at) > settings.max_lifetime

\* PooledConnection.is_idle
IsIdle(e) ==
    IF settings.idle_timeout <= 0 THEN FALSE
    ELSE (ptime - stamps[e].last_used_at) > settings.idle_timeout

\* PooledConnection.needs_health_check
NeedsHealthCheck(e) ==
    IF settings.health_check_interval <= 0 THEN FALSE
    ELSE (ptime - stamps[e].last_health_check)
             > settings.health_check_interval

\* acquire's checks on entry e in the order of the code; healthy is what
\* _is_connection_healthy returns if it is called.
AcqVerdictAt(e, healthy) ==
    IF IsStale(e) THEN "stale"
    ELSE IF IsIdle(e) THEN "idle"
    ELSE IF NeedsHealthCheck(e)
    THEN (IF healthy THEN "healthy" ELSE "unhealthy")
    ELSE "fresh"

\* release's checks on entry e; ok is what _reset_connection returns if it
\* is called.
RelVerdictAt(e, ok) ==
    IF IsStale(e) THEN "stale"
    ELSE IF ok THEN "ok" ELSE "rollback_fails"

\* remaining = deadline - time.time()
Remaining(t) == deadline[t] - ptime

\* time.time() moves on.
PoolTick ==
    /\ ptime < MaxPoolTime
    /\ ptime' = ptime + 1
    /\ UNCHANGED <<settings, poolVars, clientVars, closerVars, stampVars,
                   regVars, getterVars, regCloserVars, handleVars, cacheVars,
                   wrapperVars, directVars, pipelineVars, sessionVars>>

\* The settings the clocked pool is constructed with: each retirement
\* threshold disabled (0) or one second under the longest acquire_timeout
\* the clock can reach, and every shorter acquire_timeout, 0 included,
\* with the thresholds disabled.
SettingInputs ==
    {[max_lifetime |-> ml, idle_timeout |-> it,
      health_check_interval |-> hc, acquire_timeout |-> MaxPoolTime] :
        ml \in {0, 1}, it \in {0, 1}, hc \in {0, 1}}
    \cup {[max_lifetime |-> 0, idle_timeout |-> 0,
           health_check_interval |-> 0, acquire_timeout |-> at] :
             at \in 0..MaxPoolTime}

\* A pool of one connection at most (max_size = 1, min_size <= 1).
InitTimed == \E s \in SettingInputs : InitAt(s) /\ max_size = 1

NextTimed ==
    \/ PoolTick
    \/ \E t \in Clients : calls < MaxTimedCalls /\ Acquire(t)
    \/ \E t \in Clients : Remaining(t) <= 0 /\ AcqTimeout(t)
    \/ \E t \in Clients : Remaining(t) > 0 /\ AcqGet(t)
    \/ \E t \in Clients : Remaining(t) > 0 /\ AcqEmpty(t)
    \/ \E t \in Clients, healthy \in BOOLEAN :
          AcqCheck(t, AcqVerdictAt(held[t], healthy))
    \/ \E t \in Clients : AcqCanCreate(t)
    \/ \E t \in Clients : AcqCreate(t)
    \/ \E t \in Clients, ok \in BOOLEAN : AcqConnect(t, ok)
    \/ \E t \in Clients, raises \in BOOLEAN : Body(t, raises)
    \/ \E t \in Clients : RelStart(t)
    \/ \E t \in Clients : RelCheckClosed(t)
    \/ \E t \in Clients, ok \in BOOLEAN :
          RelReset(t, RelVerdictAt(held[t], ok))
    \/ \E t \in Clients : RelPut(t)

\* close() is not called: what it does to a borrow is Spec's subject.
SpecTimed == InitTimed /\ [][NextTimed]_vars

NextRegistry ==
    \/ \E g \in Getters, name \in AliasInputs : Get(g, name)
    \/ \E g \in Getters : GetRead(g)
    \/ \E g \in Getters : GetLocked(g)
    \/ RegClose
    \/ \E raises \in BOOLEAN : RegCloseNext(raises)
    \/ RegCloseClear
    \/ \E name \in AliasInputs : RegCloseDatabase(name)
    \/ \E raises \in BOOLEAN : RegCloseDatabaseClose(raises)

\* The registry's threads run beside one pool at rest.
InitRegistry == Init /\ max_size = 1 /\ created_count = 1
SpecRegistry == InitRegistry /\ [][NextRegistry]_vars

NextHandle ==
    \/ \E u \in Users : HandleCall(u)
    \/ \E u \in Users, k \in 0..1 : HandleConstruct(u, k)
    \/ \E u \in Users : HandleReturnPool(u)
    \/ \E u \in Users, connects \in BOOLEAN : HandleAcquire(u, connects)
    \/ \E u \in Users, raises \in BOOLEAN : HandleRelease(u, raises)
    \/ HandleClose
    \/ HandleClosePool
    \/ HandleCloseClear

\* The handle's threads run beside one pool and a registry at rest.
SpecHandle == InitRegistry /\ [][NextHandle]_vars

\* ttl passed to a direct set: 0, None for default_ttl, or twice that; the
\* keys the direct calls use.
DirectTtls == {0, DefaultTtl, 2 * DefaultTtl}
DirectKeys == {CacheKey(c) : c \in {d \in CallInputs : d.args = <<PyNone>>}}

\* Direct calls of the cache's methods, in any order, as time passes.
DirectValues == {DirectValue, Answer(NoBinding, 1)}

NextCache ==
    \/ Tick
    \/ \E k \in DirectKeys : DirectGet(k)
    \/ \E k \in DirectKeys, v \in DirectValues, ttl \in DirectTtls :
          DirectSet(k, v, ttl)
    \/ DirectSetWrite
    \/ \E k \in DirectKeys : DirectInvalidate(k)
    \/ DirectClear
    \/ DirectCleanup
    \/ DirectCleanupSweep

\* The cache runs beside a pool, a registry and a handle at rest.
SpecCache == InitRegistry /\ [][NextCache]_vars

\* Threads calling the memoised function as time passes, beside
\* invalidate_metadata_cache().
NextCached ==
    \/ Tick
    \/ \E w \in Wrappers, c \in CallInputs : CachedCall(w, c)
    \/ \E w \in Wrappers : CachedGet(w)
    \/ \E w \in Wrappers, raises \in BOOLEAN : CachedFunc(w, raises)
    \/ \E w \in Wrappers : CachedSetWrite(w)
    \/ InvalidateMetadataCache

SpecCached == InitRegistry /\ [][NextCached]_vars

\* A thread calling the handle's operations one after another.
NextSession ==
    \/ \E op \in SessionOps, pooled \in BOOLEAN, ok \in BOOLEAN :
          SessionCall(op, pooled, ok)
    \/ \E result \in BodyResults("get_cursor"), n \in 0..MaxAffected :
          SessionBody(result, n)
    \/ \E ok \in BOOLEAN : SessionCommit(ok)
    \/ \E ok \in BOOLEAN : SessionRollback(ok)
    \/ SessionCloseCursor
    \/ SessionRelease

SpecSession == InitRegistry /\ [][NextSession]_vars

\* The operations of the pipeline called one after another as the cache's
\* clock advances.
NextPipeline ==
    \/ Tick
    \/ \E op \in TimedOps \cup PlainOps, database \in PipelineAliases :
          \E arg \in ArgInputs(op) :
             \E limit \in IF op = "execute_query" THEN LimitInputs
                                                  ELSE {DefaultLimit} :
                PipelineCall(op, arg, limit, database)
    \/ \E avail \in RowInputs, elapsed \in ElapsedInputs :
          PipelineDb(avail, NoMessage, elapsed)
    \/ \E msg \in DriverMessages, elapsed \in ElapsedInputs :
          PipelineDb(0, msg, elapsed)
    \/ PipelineAudit
    \/ PipelineExit

SpecPipeline == InitRegistry /\ [][NextPipeline]_vars

TypeOK ==
    /\ max_size \in 1..MaxPoolSize
    /\ queue \in Seq(EntryIds)
    /\ created_count \in Int
    /\ closed \in BOOLEAN
    /\ conn_open \subseteq EntryIds
    /\ \A t \in Clients : held[t] \in EntryIds \cup {NoEntry}
    /\ cheld \in EntryIds \cup {NoEntry}
    /\ \A i \in 1..Len(managers) : managers[i].h \in 1..Len(handles)
    /\ rlock \in {"free", "closer"}
    /\ \A g \in Getters : gh[g] \in 0..Len(handles)

\* ---------------------------------------------------------------- claims
AllIdle == \A t \in Clients : pc[t] = "idle"
\* Client t is inside release().
InRelease(t) == pc[t] \in {"rel_start", "rel_closed", "rel_reset", "rel_put"}
\* The step is taken by client t.
StepOf(t) ==
    <<pc[t], held[t], outcome[t], exc[t], reset[t]>>' #
        <<pc[t], held[t], outcome[t], exc[t], reset[t]>>

\* C1: in every reachable state of a pool, under any interleaving of
\* acquire, release and close calls and of connection creations that
\* succeed or fail, 0 <= parked entries <= created_count <= max_size.
C1_PoolBounds ==
    /\ 0 <= Len(queue)
    /\ Len(queue) <= created_count
    /\ created_count <= max_size

\* C1 witness: a pool of two that created a connection on demand and had
\* both entries released and parked again, so all three bounds are tight.
C1_Witness ==
    /\ max_size = 2
    /\ Len(queue) = 2
    /\ created_count = 2
    /\ total_releases >= 2
    /\ failed_acquisitions >= 1

\* C2: an entry is never owned by two callers at once and never parked
\* while a caller owns it: the entries held by the threads are pairwise
\* different, none of them is in the parked queue, and the queue holds no
\* entry twice.
C2_ExclusiveOwnership ==
    /\ \A t, u \in Clients :
          (t # u /\ held[t] # NoEntry) => held[t] # held[u]
    /\ \A t \in Clients :
          held[t] # NoEntry => (held[t] \notin Range(queue) /\ held[t] # cheld)
    /\ cheld # NoEntry => cheld \notin Range(queue)
    /\ \A i, j \in 1..Len(queue) : i # j => queue[i] # queue[j]

\* C2 witness: both clients are inside their scope at the same time, after
\* an entry has already been released and handed out again.
C2_Witness ==
    /\ \A t \in Clients : pc[t] = "body" /\ held[t] # NoEntry
    /\ total_releases >= 1
    /\ transaction_resets >= 1

\* C3: whenever a release parks its entry, _reset_connection has rolled
\* the entry's connection back successfully earlier in that same release.
C3_RollbackBeforePark ==
    [][\A t \in Clients :
          (/\ InRelease(t)
           /\ held[t] \notin Range(queue)
           /\ held[t] \in Range(queue'))
          => reset[t] = "done"]_vars

\* C3 witness: a release has returned with its entry re-parked.
C3_Witness ==
    \E t \in Clients :
        /\ pc[t] = "idle"
        /\ reset[t] = "done"
        /\ outcome[t] = "ok"
        /\ queue # << >>

\* C4: the scoped borrow releases its entry exactly once on every exit
\* path: once every borrow has returned, no thread holds an entry, in_use
\* is 0 and total_releases equals total_acquisitions.
C4_ScopedBorrowBalanced ==
    AllIdle =>
        /\ \A t \in Clients : held[t] = NoEntry
        /\ in_use = 0
        /\ total_releases = total_acquisitions

\* C4 witness: all borrows have returned, one of them by an error raised
\* inside the scope and another one normally.
C4_Witness ==
    /\ AllIdle
    /\ \E t, u \in Clients : outcome[t] = "error" /\ outcome[u] = "ok"
    /\ total_acquisitions >= 2

\* C5: the closed flag never returns to false, and an acquire on a closed
\* pool fails at once with "Pool is closed": the caller does not enter the
\* wait loop, no pool field changes (no connection is created and
\* failed_acquisitions is not incremented) and no entry is handed out.
C5_AcquireAfterClose ==
    [][/\ closed => closed'
       /\ (closed /\ calls' # calls) =>
             /\ UNCHANGED <<poolVars, pc, held>>
             /\ \E t \in Clients :
                   /\ pc[t] = "idle"
                   /\ outcome'[t] = "closed"
                   /\ \A u \in Clients \ {t} : outcome'[u] = outcome[u]]_vars

\* C5 witness: close() has returned and a later acquire failed with
\* "Pool is closed".
C5_Witness ==
    /\ cpc = "done"
    /\ closed
    /\ \E t \in Clients : outcome[t] = "closed" /\ pc[t] = "idle"

\* C6: once close() has returned and every checked-out entry has been
\* released, no entry is parked, created_count is 0 and every connection
\* has been closed exactly once.
C6_NothingLeftAfterClose ==
    (cpc = "done" /\ AllIdle) =>
        /\ queue = << >>
        /\ created_count = 0
        /\ conn_open = {}
        /\ ~closed_twice

\* Client t finds the pool exhausted: nothing is parked and all max_size
\* entries are checked out by the other callers.
Exhausted(t) ==
    /\ queue = << >>
    /\ created_count = max_size
    /\ Cardinality({u \in Clients \ {t} : pc[u] = "body"}) = max_size

\* C7: while the pool stays exhausted, an acquire waiting in it changes no
\* pool field, and the only way it ends is the timeout error, which adds
\* exactly 1 to failed_acquisitions and leaves created_count, the parked
\* queue, in_use, total_acquisitions and the closed flag as they were, so
\* the pool is as usable afterwards as it was before the call.
C7_TimeoutOnExhaustedPool ==
    [][\A t \in Clients :
          (/\ pc[t] \in {"acq_loop", "acq_empty"}
           /\ Exhausted(t)
           /\ StepOf(t))
          => \/ /\ pc'[t] \in {"acq_loop", "acq_empty"}
                /\ UNCHANGED <<poolVars, held>>
             \/ /\ pc'[t] = "idle"
                /\ outcome'[t] = "timeout"
                /\ failed_acquisitions' = failed_acquisitions + 1
                /\ UNCHANGED <<max_size, queue, created_count, closed,
                               total_acquisitions, total_releases,
                               health_check_count, transaction_resets,
                               in_use, peak_usage, conn_open, closed_twice,
                               held>>]_vars

\* C7 witness: an acquire has timed out on a pool whose only entry is
\* checked out by the other client, and that was the only failure counted.
C7_Witness ==
    \E t \in Clients :
        /\ pc[t] = "idle"
        /\ outcome[t] = "timeout"
        /\ Exhausted(t)
        /\ failed_acquisitions = 1

\* C8: when the rollback made by release raises, release closes the entry
\* and returns normally: the parked queue is unchanged, created_count is
\* one less, transaction_resets is unchanged and the entry's connection
\* is closed.
C8_FailedRollbackDiscards ==
    [][\A t \in Clients :
          (pc[t] = "rel_reset" /\ reset'[t] = "failed")
          => /\ queue' = queue
             /\ created_count' = created_count - 1
             /\ transaction_resets' = transaction_resets
             /\ held[t] \notin conn_open'
             /\ held[t] \notin Range(queue')
             /\ pc'[t] = "idle"
             /\ held'[t] = NoEntry
             /\ outcome'[t] = (IF exc[t] THEN "error" ELSE "ok")]_vars

\* C8 witness: a release whose rollback raised has returned.
C8_Witness ==
    \E t \in Clients :
        /\ pc[t] = "idle"
        /\ reset[t] = "failed"
        /\ outcome[t] \in {"ok", "error"}

\* The handles constructed so far for alias a.
HandlesOf(a) == {h \in 1..Len(handles) : handles[h].name = a}

\* C9: as long as only get calls run on the registry (no close and no
\* close_database has been called), at most one handle exists per alias,
\* every get that returned did return the handle of its alias, and a
\* handle is constructed only inside a get for its alias.
C9_OneHandlePerAlias ==
    /\ [](rcloses = 0 =>
            /\ \A a \in AliasInputs : Cardinality(HandlesOf(a)) <= 1
            /\ \A g \in Getters :
                  gout[g] = "handle" => gh[g] \in HandlesOf(galias[g]))
    /\ [][Len(handles') > Len(handles) =>
            \E g \in Getters :
                /\ gpc[g] = "want_lock"
                /\ handles' =
                      Append(handles, [name |-> galias[g], closes |-> 0])]_vars

\* C9 witness: a get waits for the lock for an alias whose handle another
\* get, which found the map empty as well, has already constructed and
\* returned.
C9_Witness ==
    \E g, u \in Getters :
        /\ g # u
        /\ rcloses = 0 /\ gets = 2
        /\ gpc[g] = "want_lock"
        /\ gout[u] = "handle" /\ galias[u] = galias[g]
        /\ Lookup(galias[g]) = gh[u]

\* C10: no handle is ever closed twice, and when registry close() returns
\* it returns normally, the alias-to-handle map is empty and every handle
\* constructed so far has been closed exactly once, whether or not closing
\* some handle raised.
C10_CloseClosesEachOnce ==
    /\ [](\A h \in 1..Len(handles) : handles[h].closes <= 1)
    /\ [][(rpc = "close_loop" /\ rpc' = "idle") =>
            /\ managers' = << >>
            /\ rout' = "ok"
            /\ rlock' = "free"
            /\ \A h \in 1..Len(handles') : handles'[h].closes = 1]_vars

\* C10 witness: close() has returned after closing two handles, the first
\* of which raised from its close.
C10_Witness ==
    /\ rpc = "idle" /\ rout = "ok" /\ rcloses = 1
    /\ managers = << >>
    /\ Len(handles) = 2
    /\ 1 \in rfailed
    /\ \A h \in 1..Len(handles) : handles[h].closes = 1

\* C11: after a handle's close() the handle is terminal: once a close()
\* that closed the handle's pool has returned, a cursor, query or exec call
\* that begins afterwards constructs no pool and opens no connection.
C11_HandleTerminal ==
    [][\A u \in Users :
          (hlate[u] /\ hpc[u] # "idle" /\ hpc'[u] # hpc[u])
          => /\ Len(hpools') = Len(hpools)
             /\ \A p \in 1..Len(hpools) :
                   hpools'[p].created <= hpools[p].created]_vars

\* C13: TTLCache.get(key) returns (value, found) exactly when the key has
\* been set, not invalidated or cleared since, and now < the expiry of
\* that set (its clock reading + ttl), and value is then the value set;
\* otherwise it returns (None, not found) and the key is not in the map
\* after the read, an expired entry having been removed by it.
C13_GetIffLive ==
    [][(mops' = mops + 1 /\ mres' \in {"found", "missing"})
          => /\ (mres' = "found")
                  <=> (mkey' \in DOMAIN tlive /\ now < tlive[mkey'].expires)
             /\ mres' = "found" => mval' = tlive[mkey'].value
             /\ mres' = "missing"
                  => mval' = NoneValue /\ mkey' \notin DOMAIN tcache']_vars

\* A read found an entry that was set with a ttl and has expired since:
\* it answered "missing" although the key is still set, and removed it.
C13_Witness ==
    /\ mres = "missing"
    /\ mkey \in DOMAIN tlive
    /\ tlive[mkey].expires > 0
    /\ now >= tlive[mkey].expires
    /\ mkey \notin DOMAIN tcache

\* C14: two calls of a memoised operation with identical arguments made
\* within the TTL, with no invalidation in between, invoke the underlying
\* function once, however the two calls interleave: while the first TTL
\* has not run out, the function has returned a result at most once for
\* any arguments.
C14_InvokedOnce ==
    (mops = 0 /\ now < MetadataCacheTtl)
        => \A c \in CallInputs : invoked[c] <= 1

\* C15: cached answers are not shared across databases.  When a call of a
\* memoised operation looks its key up, the key differs from the key of
\* every call that differs from it in the database argument only; if the
\* call is answered from the cache, the answer was computed for the
\* call's own database; and if its own entry is live (set, not cleared
\* since, now < expiry) it is answered from that entry and the
\* underlying function is not invoked.
C15_PerDatabase ==
    [][\A w \in Wrappers :
          (wpc[w] = "w_get" /\ wpc'[w] # "w_get")
          => LET c == wcall[w]
                 k == KeyOf[c]
             IN /\ \A d \in CallInputs :
                       ( /\ d.args = c.args
                         /\ Len(d.kwargs) = Len(c.kwargs)
                         /\ \A i \in 1..Len(c.kwargs) :
                               /\ d.kwargs[i].name = c.kwargs[i].name
                               /\ (c.kwargs[i].name = "database")
                                     = (d.kwargs[i].value # c.kwargs[i].value) )
                       => KeyOf[d] # k
                /\ wout'[w] = "hit"
                     => /\ served'.call = c
                        /\ served'.value.of.database = Bound(c).database
                /\ (k \in DOMAIN tlive /\ now < tlive[k].expires)
                     => /\ wout'[w] = "hit"
                        /\ wpc'[w] = "idle"
                        /\ served'.value = tlive[k].value
                        /\ invoked' = invoked]_vars

\* list_tables for database a and for database b have each run the
\* underlying function once, both entries are cached, and the third call,
\* for database a again, was answered from the cache.
C15_Witness ==
    LET ca == [args |-> <<PyNone>>, kwargs |-> <<Kw("database", PyStr("a"))>>]
        cb == [args |-> <<PyNone>>, kwargs |-> <<Kw("database", PyStr("b"))>>]
    IN /\ wcalls = 3
       /\ mops = 0
       /\ invoked[ca] = 1
       /\ invoked[cb] = 1
       /\ {KeyOf[ca], KeyOf[cb]} \subseteq DOMAIN tcache
       /\ served.call = ca
       /\ served.value.of.database = PyStr("a")
       /\ \A w \in Wrappers : wpc[w] = "idle"

\* C16: the memoisation key does not depend on the order in which keyword
\* arguments are passed.  Every call with the same positional arguments
\* and the same keyword arguments as a call c has c's key; the entry c
\* writes is the entry such a call reads; and c is answered from the
\* cache exactly when such a call's key has an unexpired entry.
C16_KeyIgnoresKwOrder ==
    [][\A w \in Wrappers, d \in CallInputs :
          ( /\ wpc[w] \in {"w_get", "w_write"}
            /\ wpc'[w] # wpc[w]
            /\ d.args = wcall[w].args
            /\ Range(d.kwargs) = Range(wcall[w].kwargs) )
          => /\ KeyOf[d] = KeyOf[wcall[w]]
             /\ wpc[w] = "w_write"
                  => /\ KeyOf[d] \in DOMAIN tcache'
                     /\ tcache'[KeyOf[d]].value = wval[w]
             /\ wpc[w] = "w_get"
                  => ((wout'[w] = "hit") <=> CacheHit(KeyOf[d]))]_vars

\* A call passing (database, schema) was answered from the cache although
\* the function has only ever run for the call passing (schema, database).
C16_Witness ==
    LET c1 == [args |-> << >>,
               kwargs |-> <<Kw("schema", PyNone), Kw("database", PyStr("a"))>>]
        c2 == [args |-> << >>,
               kwargs |-> <<Kw("database", PyStr("a")), Kw("schema", PyNone)>>]
    IN /\ served.call = c2
       /\ invoked[c2] = 0
       /\ invoked[c1] = 1
       /\ served.value = Answer(Bound(c1), 0)
       /\ \A c \in CallInputs \ {c1} : invoked[c] = 0

\* C12 (as amended): the registry's get of an alias that is not configured
\* raises a key error that names the alias and lists the configured
\* aliases, constructs no handle, borrows no connection and leaves the
\* alias-to-handle mapping unchanged; every pipeline operation given such
\* an alias returns success=false and changes nothing in the registry, and
\* its error mentions the alias whenever its other arguments pass the
\* operation's own checks and the error is not rewritten by the sanitiser
\* (the operation returns str(e), or the alias is no IPv4 literal).
C12_UnknownAlias ==
    [][(qin'.database \notin Configured)
          => /\ managers' = managers
             /\ handles' = handles
             /\ (qpc = "q_db" /\ qpc' # "q_db")
                  => /\ qacquired' = qacquired
                     /\ \E i \in 1..Len(qerr') :
                           qerr'[i] = Tok("alias", qin.database)
                     /\ {qerr'[i].text : i \in {j \in 1..Len(qerr') :
                                           qerr'[j].kind = "available"}}
                           = Configured
             /\ (qpc' = "idle" /\ (qpc # "idle" \/ qcalls' # qcalls))
                  => /\ qresp'.success = FALSE
                     /\ ( /\ Validate(qin'.op, qin'.arg) = NoMessage
                          /\ \/ qin'.op \in PlainOps
                             \/ qin'.database \notin IPv4Literals )
                          => \E i \in 1..Len(qresp'.error) :
                                qresp'.error[i].text = qin'.database]_vars

\* execute_query("SELECT 1", database="ghost") has returned an error that
\* mentions ghost, after its audit record, and the registry is empty.
C12_Witness ==
    /\ qpc = "idle"
    /\ qin.op = "execute_query"
    /\ qin.arg = <<"SELECT", "1">>
    /\ qin.database = "ghost"
    /\ qresp.success = FALSE
    /\ \E i \in 1..Len(qresp.error) : qresp.error[i].text = "ghost"
    /\ Len(qaudit) = 1
    /\ managers = << >>
    /\ handles = << >>

\* C12 as stated: every pipeline operation given an alias that is not
\* configured returns success=false with an error mentioning the alias.
C12_Original ==
    (qpc = "idle" /\ qcalls > 0 /\ qin.database \notin Configured)
        => /\ qresp.success = FALSE
           /\ \E i \in 1..Len(qresp.error) :
                 qresp.error[i].text = qin.database

\* C17: an error response to a call whose driver raised an error has
\* success=false and holds no user name, password, connection-string
\* value or IPv4 literal of the driver's message, for every operation.
C17_NoSecretsInErrors ==
    (qpc = "idle" /\ qerr \in DriverMessages)
        => /\ qresp.success = FALSE
           /\ \A i \in 1..Len(qresp.error), j \in 1..Len(qerr) :
                 ( \/ qerr[j].kind \in {"login_user", "server", "uid",
                                        "pwd", "principal"}
                   \/ qerr[j].text \in IPv4Literals )
                 => qresp.error[i].text # qerr[j].text

\* C18: execute_query of a statement that holds a blocked keyword K
\* returns {success: false, error: "Blocked keyword detected: K"} at
\* once, emits one VALIDATION_FAILED audit record carrying
\* blocked_keyword = K, borrows no connection and changes nothing in the
\* registry or the pool.
C18_BlockedKeyword ==
    [][(qcalls' = qcalls + 1 /\ qin'.op = "execute_query"
          /\ \E i \in 1..Len(qin'.arg) :
                UpperOf[qin'.arg[i]] \in BlockedKeywords)
          => LET K == CHOOSE k \in BlockedKeywords :
                         \E i \in 1..Len(qin'.arg) :
                            UpperOf[qin'.arg[i]] = k
             IN /\ qpc' = "idle"
                /\ qresp' = ErrorShape(<<Tok("plain",
                                             "Blocked keyword detected:"),
                                         Tok("keyword", K)>>)
                /\ Len(qaudit') = 1
                /\ qaudit'[1].event = "VALIDATION_FAILED"
                /\ qaudit'[1].blocked_keyword = K
                /\ qacquired' = qacquired
                /\ UNCHANGED <<regVars, poolVars>>]_vars

\* C19: the audit record of an operation that ran in a timing window is
\* emitted when the window has closed: once the operation has returned,
\* its one record carries the duration the window measured and the row
\* count of the result.
C19_AuditAfterCompletion ==
    (qpc = "idle" /\ qtiming # -1)
        => /\ Len(qaudit) = 1
           /\ qaudit[1].duration_ms = qtiming
           /\ qaudit[1].row_count = qresp.row_count

C21_WrappedStatement ==
    (qin.op \in QueryOps /\ qsent # << >>) =>
        LET sql == IF qin.op = "execute_query" THEN qin.arg ELSE FileSql
            n == Len(sql)
        IN /\ Len(qsent) = n + 9
           /\ SubSeq(qsent, 1, 6) =
                  <<"SELECT", "TOP", IntStr(qlimit + 1), "*", "FROM", "(">>
           /\ SubSeq(qsent, 7, n + 6) = sql
           /\ SubSeq(qsent, n + 7, n + 9) = <<")", "AS", "_limited_query">>
           /\ qlimit \in 1..MaxLimit

\* A read statement with white space before its first word is sent, its
\* limit clamped from above; and a file's statement is sent.
C21_Witness ==
    /\ qin.op = "execute_query"
    /\ qin.arg = <<" ", "select", "1">>
    /\ qin.limit = 2 * MaxLimit
    /\ qsent # << >>
    /\ qsent[3] = "10001"
    /\ qresp.success

\* C22: validate_query(sql, allow_modifications) accepts exactly when sql
\* is not empty or white space only, holds no blocked keyword as a whole
\* word (in any case), holds no token beginning with xp_ or sp_, and its
\* first token is SELECT or WITH in read mode, or one of SELECT, WITH,
\* INSERT, UPDATE, DELETE in modification mode.  (A rejection by
\* validate_query is what emits the VALIDATION_FAILED record.)
C22_ValidateQueryExact ==
    (qcalls > 0 /\ qin.op \in {"execute_query", "execute_statement"}) =>
        LET sql == qin.arg
            runs == UNION {WordRuns(sql[i]) : i \in 1..Len(sql)}
            allowed == IF qin.op = "execute_statement"
                         THEN {"SELECT", "WITH", "INSERT", "UPDATE", "DELETE"}
                         ELSE {"SELECT", "WITH"}
            accepts == /\ Split(sql) # << >>
                       /\ \A r \in runs : UpperOf[r] \notin BlockedKeywords
                       /\ \A r \in runs : PrefixOf(r) = ""
                       /\ UpperOf[Split(sql)[1]] \in allowed
            rejected == /\ qaudit # << >>
                        /\ qaudit[1].event = "VALIDATION_FAILED"
        IN accepts <=> ~rejected

\* C23: execute_statement passes to the handle only statements whose first
\* token is INSERT, UPDATE or DELETE; a SELECT or WITH statement never
\* reaches the handle and, when validate_query has nothing against it, is
\* answered with the error that points to execute_query; and
\* execute_query passes on only statements whose first token is SELECT or
\* WITH.
C23_DispatchByFirstToken ==
    LET first == IF Split(qin.arg) = << >> THEN ""
                 ELSE UpperOf[Split(qin.arg)[1]]
    IN /\ (qin.op = "execute_statement" /\ qsent # << >>) =>
             /\ qsent = qin.arg
             /\ first \in {"INSERT", "UPDATE", "DELETE"}
       /\ (qin.op = "execute_statement" /\ qcalls > 0
              /\ first \in {"SELECT", "WITH"}) =>
             /\ qsent = << >>
             /\ qpc = "idle"
             /\ ~qresp.success
             /\ (qaudit = << >>) =>
                    qresp.error =
                       Plain("Use execute_query for SELECT statements")
       /\ (qin.op = "execute_query" /\ qsent # << >>) =>
             /\ first \in {"SELECT", "WITH"}
             /\ qsent[1] = "SELECT"

\* execute_statement has been given a WITH statement that validate_query
\* accepts, and has answered.
C23_Witness ==
    /\ qin.op = "execute_statement"
    /\ qin.arg = <<"WITH", "cte">>
    /\ qpc = "idle"
    /\ qaudit = << >>
    /\ qresp.error = Plain("Use execute_query for SELECT statements")

\* The places in the log of the call where event ev stands.
At(ev) == {i \in 1..Len(slog) : slog[i] = ev}
\* The handle's own attempts to roll back, and the failures of the code run
\* with the cursor.
Rollbacks == At("rollback") \cup At("rollback failed")
Failures == At("execute failed") \cup At("app error") \cup At("commit failed")

\* C24: DatabaseManager.execute_statement commits exactly once, after a
\* successful execute and before the connection is released, and returns
\* the affected row count; if execute or commit raises it leaves nothing
\* committed by the call, attempts a rollback and raises that same error;
\* on success it attempts no rollback of its own.
C24_ExecCommitsOnce ==
    (sop.op = "execute_statement" /\ spc = "idle" /\ slog # << >>) =>
        IF sout.kind = "returned"
          THEN /\ Cardinality(At("commit")) = 1
               /\ \A c \in At("commit") :
                     /\ \E e \in At("execute") : e < c
                     /\ \A r \in At("release") : c < r
               /\ Failures = {} /\ Rollbacks = {}
               /\ sout.value = sval
               /\ sop.pooled => At("release") # {}
          ELSE /\ sout.kind = "raised"
               /\ At("commit") = {}
               /\ Cardinality(Failures) = 1
               /\ Cardinality(Rollbacks) = 1
               /\ \A f \in Failures, r \in Rollbacks :
                     f < r /\ sout.error = slog[f]

\* A pooling handle's execute_statement has returned the row it affected;
\* nothing of an earlier call is in the log.
C24_Witness ==
    /\ sop = [op |-> "execute_statement", pooled |-> TRUE]
    /\ spc = "idle"
    /\ sout = Returned(1)
    /\ slog = <<"acquire", "cursor", "execute", "commit", "cursor.close",
                "release">>

\* C25: in a handle operation that fails inside the cursor scope, the
\* handle's rollback attempt comes before the connection is released to
\* the pool, the cursor is closed on every exit path, and the error that
\* reaches the caller is the original error also when the rollback itself
\* raises.
C25_RollbackThenRelease ==
    (spc = "idle" /\ slog # << >>) =>
        /\ Cardinality(At("cursor")) = 1
        /\ Cardinality(At("cursor.close")) = 1
        /\ \A c \in At("cursor"), d \in At("cursor.close") : c < d
        /\ \A d \in At("cursor.close"), r \in At("release") : d < r
        /\ Failures # {} =>
              /\ Rollbacks # {}
              /\ \A b \in Rollbacks :
                    /\ \A f \in Failures : f < b
                    /\ \A r \in At("release") : b < r
              /\ sop.pooled => At("release") # {}
              /\ \A f \in Failures : sout = Raised(slog[f])

\* The caller's code failed inside `with get_cursor()` of a pooling handle,
\* the rollback failed as well, and the caller has its own error back.
C25_Witness ==
    /\ sop = [op |-> "get_cursor", pooled |-> TRUE]
    /\ spc = "idle"
    /\ slog = <<"acquire", "cursor", "app error", "rollback failed",
                "cursor.close", "release">>
    /\ sout = Raised("app error")

\* C26: total_acquisitions, total_releases, failed_acquisitions,
\* health_checks, transaction_resets and peak_usage never decrease across
\* any sequence of pool operations (in_use, available, total_connections
\* and closed are free to change in other ways).
C26_CountersMonotonic ==
    [][/\ total_acquisitions' >= total_acquisitions
       /\ total_releases' >= total_releases
       /\ failed_acquisitions' >= failed_acquisitions
       /\ health_check_count' >= health_check_count
       /\ transaction_resets' >= transaction_resets
       /\ peak_usage' >= peak_usage]_vars

\* Every one of the counters has been counted up, and in_use has come
\* down from its peak.
C26_Witness ==
    /\ total_acquisitions > 1 /\ total_releases > 0
    /\ failed_acquisitions > 0 /\ health_check_count > 0
    /\ transaction_resets > 0
    /\ in_use < peak_usage

\* C27: acquire never returns an entry that is stale (age > max_lifetime,
\* when max_lifetime > 0), idle (unused for longer than idle_timeout, when
\* idle_timeout > 0) or whose due health check (health_check_interval > 0
\* elapsed) failed: each such entry is closed, created_count is decremented
\* exactly once for it, and acquire keeps looping; a setting of 0 disables
\* the respective retirement.  Stated of the step in which acquire decides
\* about the entry it took from the queue: the entry is returned or
\* retired; a stale or idle one is retired; one whose health check is due
\* has the check run, and is returned with the check recorded as passed or
\* retired; and nothing is retired unless an enabled threshold is exceeded.
C27_RetiresUnfit ==
    [][\A t \in Clients :
          (pc[t] = "acq_got" /\ pc'[t] # "acq_got") =>
             LET e == held[t]
                 stale == /\ settings.max_lifetime > 0
                          /\ ptime - stamps[e].created_at
                                > settings.max_lifetime
                 idle == /\ settings.idle_timeout > 0
                         /\ ptime - stamps[e].last_used_at
                               > settings.idle_timeout
                 due == /\ settings.health_check_interval > 0
                        /\ ptime - stamps[e].last_health_check
                              > settings.health_check_interval
                 returned == /\ pc'[t] = "body" /\ held'[t] = e
                             /\ e \in conn_open'
                             /\ created_count' = created_count
                 retired == /\ pc'[t] = "acq_loop" /\ held'[t] = NoEntry
                            /\ e \notin conn_open'
                            /\ created_count' = created_count - 1
                            /\ total_acquisitions' = total_acquisitions
             IN /\ returned \/ retired
                /\ (stale \/ idle) => retired
                /\ (due /\ ~stale /\ ~idle) =>
                      /\ health_check_count' = health_check_count + 1
                      /\ returned => stamps'[e].last_health_check = ptime
                /\ retired => (stale \/ idle \/ due)]_vars

\* Only the health check is enabled; acquire took the entry parked at
\* construction when its check was due, the check ran and failed, and the
\* call is back at the top of its loop: the entry is closed, nothing was
\* handed out and the pool counts no connection.
C27_Witness ==
    /\ settings.max_lifetime = 0 /\ settings.idle_timeout = 0
    /\ settings.health_check_interval = 1
    /\ health_check_count = 1 /\ total_acquisitions = 0
    /\ \E t \in Clients : pc[t] = "acq_loop" /\ held[t] = NoEntry
    /\ created_count = 0 /\ conn_open = {} /\ queue = << >>

\* C28: failed_acquisitions is incremented exactly once by each acquire
\* call that ends in the timeout error and not at all by a call that
\* returns an entry: a failed attempt to create a connection inside the
\* loop only makes the loop go on.  (A call ends in the timeout error in
\* one step, and no call takes that step and also returns an entry.)
C28_FailedCountsTimeouts ==
    [][LET timesOut == \E t \in Clients :
                          /\ pc[t] = "acq_loop" /\ pc'[t] = "idle"
                          /\ outcome'[t] = "timeout"
       IN failed_acquisitions' =
             failed_acquisitions + (IF timesOut THEN 1 ELSE 0)]_vars

\* C29: a parked entry is always preferred to a new connection: whenever
\* acquire creates a connection (_create_connection reserves the slot and
\* connects), no entry is parked at that moment and created_count <
\* max_size, whatever release calls run beside it.
C29_ParkedPreferred ==
    [][\A t \in Clients :
          (pc[t] = "acq_create" /\ pc'[t] = "acq_connect") =>
              (queue = << >> /\ created_count < max_size)]_vars

\* C30: acquire always terminates: it either returns an entry or raises
\* the timeout error once its deadline has passed, never a partial result;
\* and if the pool is exhausted and another caller releases a healthy entry
\* before a waiting acquire's deadline with no competing acquirer, the
\* waiting acquire returns an entry instead of timing out.  Stated of the
\* step in which an acquire call raises the timeout error: its deadline
\* has passed, it hands nothing to its caller, and it is not the case that
\* the open, exhausted pool holds a parked entry, fit to be handed out,
\* that was released after the call began to wait and before its deadline
\* while no other call is inside acquire.
C30_WaiterServed ==
    [][\A t \in Clients :
          (pc[t] = "acq_loop" /\ pc'[t] = "idle"
              /\ outcome'[t] = "timeout") =>
             /\ ptime >= deadline[t]
             /\ held'[t] = NoEntry
             /\ ~ /\ ~closed
                  /\ created_count = max_size
                  /\ queue # << >>
                  /\ parked_at[Head(queue)]
                        > deadline[t] - settings.acquire_timeout
                  /\ parked_at[Head(queue)] < deadline[t]
                  /\ ~IsStale(Head(queue))
                  /\ ~IsIdle(Head(queue))
                  /\ ~NeedsHealthCheck(Head(queue))
                  /\ \A u \in Clients \ {t} :
                        pc[u] \notin {"acq_loop", "acq_got", "acq_empty",
                                      "acq_create", "acq_connect"}]_vars

\* C40: for every acquire_timeout permitted by the pool configuration,
\* including 0, acquire on an open pool that has a healthy parked entry (or
\* spare capacity to create one) returns an entry rather than failing with
\* a timeout.  Stated of the step in which an acquire call raises the
\* timeout error while the clock still reads what it read when the call
\* began and no other call is in progress: the pool is then closed, or it
\* has neither a parked entry that is fit to be handed out nor room for a
\* new connection.
C40_TimeoutOnlyWhenNothingToGive ==
    [][\A t \in Clients :
          (pc[t] = "acq_loop" /\ pc'[t] = "idle"
              /\ outcome'[t] = "timeout"
              /\ ptime = deadline[t] - settings.acquire_timeout
              /\ \A u \in Clients \ {t} : pc[u] = "idle") =>
             \/ closed
             \/ /\ queue = << >>
                /\ created_count >= max_size
             \/ /\ queue # << >>
                /\ \/ IsStale(Head(queue))
                   \/ IsIdle(Head(queue))
                   \/ NeedsHealthCheck(Head(queue))]_vars

\* C32: once a pool's closed flag has been set, no new connection is
\* opened and no entry is handed out by that pool, not even by an acquire
\* call that had already passed its closed check and is inside its wait
\* loop when close() runs.
C32_NothingAfterClosed ==
    [][closed =>
          /\ conn_open' \subseteq conn_open
          /\ total_acquisitions' = total_acquisitions
          /\ \A t \in Clients : pc'[t] = "body" => pc[t] = "body"]_vars

\* C39: provided each acquired entry is released at most once (every
\* borrow is scoped, so it is), in every reachable state of a pool
\* in_use = total_acquisitions - total_releases, 0 <= in_use <=
\* created_count, and in_use <= peak_usage <= max_size.
C39_UsageAccounting ==
    /\ in_use = total_acquisitions - total_releases
    /\ 0 <= in_use /\ in_use <= created_count
    /\ in_use <= peak_usage /\ peak_usage <= max_size

\* Three borrows so far, one of them over: both connections of a pool of
\* two are in use, which is the peak.
C39_Witness ==
    /\ max_size = 2 /\ created_count = 2
    /\ total_acquisitions = 3 /\ total_releases = 1
    /\ in_use = 2 /\ peak_usage = 2
    /\ \A t \in Clients : pc[t] = "body"

\* C33: a handle constructs at most one connection pool between closes:
\* when several threads make their first cursor, query or exec call on a
\* freshly created handle concurrently, exactly one ConnectionPool (and one
\* set of min_size eager connections) is constructed and all of them use
\* it.  So the pools constructed are at most one more than the calls of
\* close() that have returned, and a thread that has its pool has the one
\* the handle refers to, as long as no close() has been called.
C33_OnePoolBetweenCloses ==
    /\ Len(hpools) <= hcloses + 1
    /\ (hcloses = 0 /\ hcpc = "idle") =>
          \A u \in Users : hlocal[u] \in {NoPool, hpool}

\* C34: registry get(alias) for a configured alias always returns a handle
\* and never raises, under any interleaving with concurrent close() or
\* close_database(alias) calls on the same registry.
C34_GetNeverRaises ==
    \A g \in Getters :
        (galias[g] \in Configured /\ gpc[g] = "idle" /\ gout[g] # "none")
            => (gout[g] = "handle" /\ gh[g] # NoHandle)

\* C36: the memoisation key is injective on argument values: two calls of
\* the same cached operation whose argument values differ (for example
\* schema=None versus a schema whose name is the string "None") never map
\* to the same cache key, so a cached answer is never returned for a
\* different argument tuple.  So the key of a call in progress is the key
\* of no call that binds other values, and the last answer served from
\* the cache was computed for the values its call binds.
C36_KeyInjective ==
    /\ \A w \in Wrappers, d \in CallInputs :
          (wcall[w] # NoCall /\ Bound(d) # Bound(wcall[w]))
              => KeyOf[d] # KeyOf[wcall[w]]
    /\ served.call # NoCall => served.value.of = Bound(served.call)

\* C31: list_procedures, get_view_definition and get_function_definition
\* are memoised in the same way as list_tables and describe_table (TTL
\* 60 s, cache key including database): a second call with identical
\* arguments within the TTL returns the same result without another driver
\* query.  So when one of them has returned a result, the cache holds an
\* entry stored with the TTL of 60 s, for list_procedures under the key
\* built from its arguments, from which the second call is answered.
C31_DefinitionsMemoised ==
    (qpc = "idle" /\ qresp.success
        /\ qin.op \in {"list_procedures", "get_view_definition",
                       "get_function_definition"})
        => /\ \E k \in DOMAIN tcache :
                 tcache[k].expires = tcache[k].value.at + MetadataCacheTtl
           /\ qin.op = "list_procedures" =>
                 MetadataKey(qin.op, qin.arg, qin.database) \in DOMAIN tcache

\* C37: when the function wrapped by @cached raises (driver error, pool
\* timeout, unknown database alias), nothing is stored and the cache is
\* left unchanged, so the next identical call invokes the function again
\* rather than replaying the failure for the rest of the TTL.  So the
\* step in which the function raises changes nothing in the cache, and a
\* call is answered from the cache only if the function has returned a
\* result for a call with its key.
C37_FailureNotCached ==
    [][\A w \in Wrappers :
          /\ (wpc[w] = "w_func" /\ wout'[w] = "raised")
                => (tcache' = tcache /\ tlive' = tlive)
          /\ (wpc[w] = "w_get" /\ wout'[w] = "hit")
                => \E d \in CallInputs :
                      KeyOf[d] = KeyOf[wcall[w]] /\ invoked[d] >= 1]_vars

\* The function raised for the first call and nothing is cached; the
\* second call has missed the cache and is about to invoke the function.
C37_Witness ==
    /\ wcalls = 2 /\ mops = 0
    /\ wpc["w1"] = "idle" /\ wout["w1"] = "raised"
    /\ wpc["w2"] = "w_func"
    /\ tcache = EmptyMap
    /\ \A c \in CallInputs : invoked[c] = 0

\* C38: every call of execute_query, execute_statement or
\* execute_procedure emits exactly one audit record before it returns,
\* whichever path it takes: SQL validation failure, statement-type or
\* identifier rejection, driver error, or success.
C38_OneAuditRecord ==
    (qpc = "idle" /\ qin.op \in {"execute_query", "execute_statement",
                                  "execute_procedure"})
        => Len(qaudit) = 1

\* C35: the handle's execute_query never commits: every operation routed
\* through it (execute_query, execute_procedure, the schema and definition
\* operations) leaves its connection to the pool's release, which rolls it
\* back (or closes it), so that what the call changed and did not commit is
\* discarded; only execute_statement leaves committed changes.
C35_QueryNeverCommits ==
    /\ sop.op # "execute_statement" => At("commit") = {}
    /\ spc = "idle" => swork[TRUE] = {}
    /\ \A d \in sdurable : d.pooled => d.op = "execute_statement"

\* After an execute_statement that committed, the pooling handle ran a
\* query that changed data; it has returned, the connection is released
\* and only the statement's changes are committed.
C35_Witness ==
    /\ sop = [op |-> "execute_query", pooled |-> TRUE]
    /\ spc = "idle"
    /\ sout.kind = "returned"
    /\ slog = <<"acquire", "cursor", "execute", "cursor.close", "release">>
    /\ swork[TRUE] = {}
    /\ sdurable = {[op |-> "execute_statement", pooled |-> TRUE]}

====
